---- MODULE Spec2Model ----
(***************************************************************************)
(* Mission control of the Mars rovers (internal/rover/rover.go).           *)
(*                                                                         *)
(* The model follows MissionControl.Execute step by step: the range loop   *)
(* over input.Instructions, NewRover, RunRover's placement check, one      *)
(* step per command character, and the two returns.  Position objects live *)
(* in a heap because NewRover keeps the pointer it is given: the rover's   *)
(* position IS the instruction's InitialPosition.                          *)
(*                                                                         *)
(* The input is revealed as the code reads it: the instruction at index i  *)
(* is drawn when the loop over the instructions reaches it, and a command  *)
(* character when the loop over the command string reaches it.  For the    *)
(* missions of the README and of the tests both are the fixed ones of that *)
(* mission.                                                                *)
(*                                                                         *)
(* SpecPrepared starts one step earlier: a caller builds the plateau and   *)
(* the instructions with NewPlateau and NewPosition from given arguments   *)
(* and whole command strings, then calls Execute.  SpecTwice lets the      *)
(* caller call Execute again, on a new MissionControl, with the same input.*)
(*                                                                         *)
(* SpecApp is App.Run (internal/app/app.go) around Execute: the input is   *)
(* read, the parser (internal/parser/parser.go) splits it into lines and   *)
(* parses the plateau line and the pairs of rover lines, the factory makes *)
(* the MissionControl, Execute runs, and the output is written.            *)
(* SpecConcurrent runs two such requests at once, as the HTTP server does. *)
(***************************************************************************)
EXTENDS Integers, Sequences, FiniteSets, TLC

VARIABLES
    statusCode,       \* handleMission: the status of the response, 0 while no header is written
    mc,               \* Run: the MissionControl Create returned, a pointer into controls
    controls,         \* the occupancy maps of the MissionControl objects made so far,
                      \* as the goroutines that are not running left them
    parse,            \* Parser.Parse: lines, and the error it returns
    app,              \* the App: a.mcf, a.input, a.output
    streams,          \* what has been written to os.Stdout and to the other writer
    runErr,           \* what App.Run returns
    parked,           \* the mission of the other goroutine, while this one runs
    mission,          \* 0: an arbitrary mission; k > 0: the k-th mission of Missions;
                      \* -1: a mission a caller prepares with the constructors;
                      \* -2: a mission App.Run parses from its input
    raw,              \* prepared missions: the arguments given to the constructors
    built,            \* prepared missions: what NewPlateau and NewPosition returned
    previous,         \* what Execute returned in the earlier runs on the same input
    plateau,          \* mc.plateau
    n,                \* len(input.Instructions)
    heap,             \* the Position objects the instructions point to
    occupiedSquares,  \* mc.occupiedSquares: Coordinates -> rover id
    i,                \* Execute: the loop index
    initialPosition,  \* Execute: instruction.InitialPosition of the loop variable
    currentRover,     \* Execute: currentRover, [id, position]
    rovers,           \* the rovers built so far, in order (history of currentRover)
    ci,               \* RunRover: the number of command characters consumed
    c,                \* RunRover: the loop variable, the character last consumed
    err,              \* Execute: the local err, as NewRover or RunRover returned it
    output,           \* Execute: the local slice output
    ret,              \* what Execute returned: [output, err]
    pc                \* "loop", "RunRover", "commands", "done"

vars == <<statusCode, mc, controls, parse, app, streams, runErr, parked, mission, raw, built, previous, plateau, n, heap, occupiedSquares, i,
          initialPosition, currentRover, rovers, ci, c, err, output, ret, pc>>

----------------------------------------------------------------------------
(* Bounds of the model *)

MaxPlateauX == 2     \* arbitrary missions: plateau widths minPlateauX..MaxPlateauX
MaxPlateauY == 2
MaxRovers   == 2     \* arbitrary missions: at most this many instructions
MaxCommands == 3     \* arbitrary missions: at most this many command characters
Beyond      == 1     \* start cells up to this far outside the plateau
MaxScript   == 4     \* prepared missions: at most this many command characters
MaxRuns     == 2     \* at most this many runs of Execute on the same input
MaxPairs    == 2     \* input documents: at most this many rovers
MaxJoint    == 1     \* two requests at once: at most this many rovers in each
MaxBody     == 48    \* the server: the largest body it reads, in characters

----------------------------------------------------------------------------
(* Program constants *)

UnknownDirection == 0
N == 1
E == 2
S == 3
W == 4

CmdMove  == "M"
CmdLeft  == "L"
CmdRight == "R"

minPlateauX == 2
minPlateauY == 2

Nil == 0   \* the nil *Position; heap pointers are 1..Len(heap)

\* errors.New: a sentinel matches itself under errors.Is
New(name, text) == [is |-> {name}, msg |-> text]

NoError == [is |-> {}, msg |-> ""]

ErrPositionOutOfBounds == New("ErrPositionOutOfBounds", "position must be more than 0 and within boundaries")
ErrDirectionUnknown    == New("ErrDirectionUnknown", "direction must be one of N, E, S, W")
ErrRoverPositionIsNil  == New("ErrRoverPositionIsNil", "rover must not be nil")
ErrRoverCollision      == New("ErrRoverCollision", "path is blocked by another rover")
ErrRoverInstructions   == New("ErrRoverInstructions", "rover error executing instruction")
ErrRoverCreating       == New("ErrRoverCreating", "rover could not be created")
ErrPlateauTooSmall     == New("ErrPlateauTooSmall", "plateau must be at least 2 * 2")

\* errors.Is(err, target) for a sentinel target
Is(e, target) == target.is \subseteq e.is /\ e # NoError

----------------------------------------------------------------------------
(* Formatting *)

Digit(d) == CASE d = 0 -> "0" [] d = 1 -> "1" [] d = 2 -> "2" [] d = 3 -> "3"
              [] d = 4 -> "4" [] d = 5 -> "5" [] d = 6 -> "6" [] d = 7 -> "7"
              [] d = 8 -> "8" [] d = 9 -> "9"

RECURSIVE NatString(_)
NatString(k) == IF k < 10 THEN Digit(k) ELSE NatString(k \div 10) \o Digit(k % 10)

\* the verb %d
Itoa(k) == IF k < 0 THEN "-" \o NatString(-k) ELSE NatString(k)

\* Direction.String
DirectionString(d) ==
    CASE d = N -> "N"
      [] d = E -> "E"
      [] d = S -> "S"
      [] d = W -> "W"
      [] OTHER -> "?"

\* Position.String
String(p) ==
    Itoa(p.coordinates.x) \o " " \o Itoa(p.coordinates.y) \o " " \o DirectionString(p.direction)

----------------------------------------------------------------------------
(* Domain model *)

NewCoordinates(x, y) == [x |-> x, y |-> y]

Position(coordinates, d) == [coordinates |-> coordinates, direction |-> d]

\* a slip: only the upper end of the range is checked
DirectionValidateUpperOnly(d) ==
    IF d > W THEN ErrDirectionUnknown ELSE NoError

\* Direction.validate
DirectionValidate(d) ==
    IF d = UnknownDirection \/ d < N \/ d > W THEN ErrDirectionUnknown ELSE NoError

\* a slip: the upper bounds are forgotten
validateBoundariesLowerOnly(pos, p) ==
    IF pos.coordinates.x < 0 \/ pos.coordinates.y < 0
    THEN ErrPositionOutOfBounds
    ELSE NoError

\* validateBoundaries
validateBoundaries(pos, p) ==
    IF pos.coordinates.x < 0 \/ pos.coordinates.x > p.maxX
       \/ pos.coordinates.y < 0 \/ pos.coordinates.y > p.maxY
    THEN ErrPositionOutOfBounds
    ELSE NoError

\* a slip: the direction is validated before the boundaries
NewPositionDirectionFirst(p, coordinates, d) ==
    LET pos == Position(coordinates, d) IN
    IF DirectionValidate(d) # NoError
    THEN [pos |-> Nil, err |-> DirectionValidate(d)]
    ELSE IF validateBoundaries(pos, p) # NoError
    THEN [pos |-> Nil, err |-> validateBoundaries(pos, p)]
    ELSE [pos |-> pos, err |-> NoError]

\* NewPosition: [pos, err], pos = Nil on error
NewPosition(p, coordinates, d) ==
    LET pos == Position(coordinates, d) IN
    IF validateBoundaries(pos, p) # NoError
    THEN [pos |-> Nil, err |-> validateBoundaries(pos, p)]
    ELSE IF DirectionValidate(d) # NoError
    THEN [pos |-> Nil, err |-> DirectionValidate(d)]
    ELSE [pos |-> pos, err |-> NoError]

\* a slip: && instead of ||
NewPlateauBothSmall(maxX, maxY) ==
    IF maxX < minPlateauX /\ maxY < minPlateauY
    THEN [plateau |-> Nil, err |-> ErrPlateauTooSmall]
    ELSE [plateau |-> [maxX |-> maxX, maxY |-> maxY], err |-> NoError]

\* NewPlateau: [plateau, err], plateau = Nil on error
NewPlateau(maxX, maxY) ==
    IF maxX < minPlateauX \/ maxY < minPlateauY
    THEN [plateau |-> Nil, err |-> ErrPlateauTooSmall]
    ELSE [plateau |-> [maxX |-> maxX, maxY |-> maxY], err |-> NoError]

\* NewRover: [rover, err], rover = Nil on error; p is a pointer
NewRover(id, p) ==
    IF p = Nil
    THEN [rover |-> Nil, err |-> ErrRoverPositionIsNil]
    ELSE [rover |-> [id |-> id, position |-> p], err |-> NoError]

\* a slip: move checks the candidate against the plateau and stays put
moveClamped(pos) ==
    LET next == CASE pos.direction = N -> [pos EXCEPT !.coordinates.y = @ + 1]
                  [] pos.direction = E -> [pos EXCEPT !.coordinates.x = @ + 1]
                  [] pos.direction = S -> [pos EXCEPT !.coordinates.y = @ - 1]
                  [] pos.direction = W -> [pos EXCEPT !.coordinates.x = @ - 1]
                  [] OTHER -> pos
    IN  IF validateBoundaries(next, plateau) # NoError THEN pos ELSE next

\* a slip: the case S copied from the case N
moveSouthUp(pos) ==
    CASE pos.direction = N -> [pos EXCEPT !.coordinates.y = @ + 1]
      [] pos.direction = E -> [pos EXCEPT !.coordinates.x = @ + 1]
      [] pos.direction = S -> [pos EXCEPT !.coordinates.y = @ + 1]
      [] pos.direction = W -> [pos EXCEPT !.coordinates.x = @ - 1]
      [] OTHER -> pos

\* Rover.move, on the value of *r.position: the candidate, r.position untouched
move(pos) ==
    CASE pos.direction = N -> [pos EXCEPT !.coordinates.y = @ + 1]
      [] pos.direction = E -> [pos EXCEPT !.coordinates.x = @ + 1]
      [] pos.direction = S -> [pos EXCEPT !.coordinates.y = @ - 1]
      [] pos.direction = W -> [pos EXCEPT !.coordinates.x = @ - 1]
      [] OTHER -> pos

\* a slip: after N comes S
turnLeftWrapSouth(pos) ==
    IF pos.direction = N
    THEN [pos EXCEPT !.direction = S]
    ELSE [pos EXCEPT !.direction = @ - 1]

\* a slip: no wrap from N to W
turnLeftNoWrap(pos) == [pos EXCEPT !.direction = @ - 1]

\* Rover.turnLeft, on the value of *r.position
turnLeft(pos) ==
    IF pos.direction = N
    THEN [pos EXCEPT !.direction = W]
    ELSE [pos EXCEPT !.direction = @ - 1]

\* a slip: after W comes E
turnRightWrapEast(pos) ==
    IF pos.direction = W
    THEN [pos EXCEPT !.direction = E]
    ELSE [pos EXCEPT !.direction = @ + 1]

\* a slip: no wrap from W to N
turnRightNoWrap(pos) == [pos EXCEPT !.direction = @ + 1]

\* Rover.turnRight, on the value of *r.position
turnRight(pos) ==
    IF pos.direction = W
    THEN [pos EXCEPT !.direction = N]
    ELSE [pos EXCEPT !.direction = @ + 1]

\* Position.set
set(p, newPos) ==
    [p EXCEPT !.coordinates.x = newPos.coordinates.x,
              !.coordinates.y = newPos.coordinates.y,
              !.direction = newPos.direction]

----------------------------------------------------------------------------
(* Mission control *)

\* the map operations of Go
MapSet(m, k, v) == [sq \in DOMAIN m \cup {k} |-> IF sq = k THEN v ELSE m[sq]]
\* a slip: the key is never removed
MapDeleteNothing(m, k) == m

MapDelete(m, k) == [sq \in DOMAIN m \ {k} |-> m[sq]]
EmptyMap == [sq \in {} |-> 0]

\* a slip: the boundaries are not checked
validateCollisionOnly(occ, p, pos) ==
    IF pos.coordinates \in DOMAIN occ THEN ErrRoverCollision ELSE NoError

\* a slip: the occupancy map is not consulted
validateNoCollision(occ, p, pos) == validateBoundaries(pos, p)

\* MissionControl.validate
validate(occ, p, pos) ==
    IF validateBoundaries(pos, p) # NoError
    THEN validateBoundaries(pos, p)
    ELSE IF pos.coordinates \in DOMAIN occ
    THEN ErrRoverCollision
    ELSE NoError

\* a slip: %v instead of %w, the cause is no longer wrapped
PlacementErrorFlat(id, pos, cause) ==
    [is  |-> {},
     msg |-> "new rover with id " \o Itoa(id) \o " cannot be placed at ("
             \o String(pos) \o "): " \o cause.msg]

\* RunRover: fmt.Errorf("new rover with id %d cannot be placed at (%s): %w", ...)
PlacementError(id, pos, cause) ==
    [is  |-> cause.is,
     msg |-> "new rover with id " \o Itoa(id) \o " cannot be placed at ("
             \o String(pos) \o "): " \o cause.msg]

\* a slip: the loop index instead of the rover id
ExecuteErrorIndex(sentinel, roverID, cause) ==
    [is  |-> sentinel.is,
     msg |-> sentinel.msg \o " " \o Itoa(roverID - 1) \o ": " \o cause.msg]

\* Execute: fmt.Errorf("%w %d: %v", sentinel, roverID, err): only the sentinel is
\* wrapped, the cause is formatted into the text
ExecuteError(sentinel, roverID, cause) ==
    [is  |-> sentinel.is,
     msg |-> sentinel.msg \o " " \o Itoa(roverID) \o ": " \o cause.msg]

\* a slip: the old key is never deleted
RunCommandKeepsOld(ch, id, pos, occ, p) ==
    CASE ch = CmdLeft  -> [position |-> turnLeft(pos), occupiedSquares |-> occ]
      [] ch = CmdRight -> [position |-> turnRight(pos), occupiedSquares |-> occ]
      [] ch = CmdMove  ->
            LET nextPos == move(pos)
            IN  IF validate(occ, p, nextPos) # NoError
                THEN [position |-> pos, occupiedSquares |-> occ]
                ELSE [position |-> set(pos, nextPos),
                      occupiedSquares |-> MapSet(occ, nextPos.coordinates, id)]
      [] OTHER -> [position |-> pos, occupiedSquares |-> occ]

\* a slip: a default branch that turns the rover
RunCommandUnknownTurns(ch, id, pos, occ, p) ==
    CASE ch = CmdLeft  -> [position |-> turnLeft(pos), occupiedSquares |-> occ]
      [] ch = CmdRight -> [position |-> turnRight(pos), occupiedSquares |-> occ]
      [] ch = CmdMove  ->
            LET currentPosKey == pos.coordinates
                nextPos == move(pos)
            IN  IF validate(occ, p, nextPos) # NoError
                THEN [position |-> pos, occupiedSquares |-> occ]
                ELSE [position |-> set(pos, nextPos),
                      occupiedSquares |->
                          MapSet(MapDelete(occ, currentPosKey), nextPos.coordinates, id)]
      [] OTHER -> [position |-> turnRight(pos), occupiedSquares |-> occ]

\* a slip: a turn is validated like a move, and refused when the cell the
\* rover would then face is outside the plateau or taken
RunCommandTurnValidated(ch, id, pos, occ, p) ==
    CASE ch \in {CmdLeft, CmdRight} ->
            LET turned == IF ch = CmdLeft THEN turnLeft(pos) ELSE turnRight(pos)
            IN  IF validate(occ, p, move(turned)) # NoError
                THEN [position |-> pos, occupiedSquares |-> occ]
                ELSE [position |-> turned, occupiedSquares |-> occ]
      [] ch = CmdMove  ->
            LET currentPosKey == pos.coordinates
                nextPos == move(pos)
            IN  IF validate(occ, p, nextPos) # NoError
                THEN [position |-> pos, occupiedSquares |-> occ]
                ELSE [position |-> set(pos, nextPos),
                      occupiedSquares |->
                          MapSet(MapDelete(occ, currentPosKey), nextPos.coordinates, id)]
      [] OTHER -> [position |-> pos, occupiedSquares |-> occ]

\* a slip: the old key is deleted before the candidate is validated
RunCommandDeleteFirst(ch, id, pos, occ, p) ==
    CASE ch = CmdLeft  -> [position |-> turnLeft(pos), occupiedSquares |-> occ]
      [] ch = CmdRight -> [position |-> turnRight(pos), occupiedSquares |-> occ]
      [] ch = CmdMove  ->
            LET currentPosKey == pos.coordinates
                nextPos == move(pos)
            IN  IF validate(MapDelete(occ, currentPosKey), p, nextPos) # NoError
                THEN [position |-> pos, occupiedSquares |-> MapDelete(occ, currentPosKey)]
                ELSE [position |-> set(pos, nextPos),
                      occupiedSquares |->
                          MapSet(MapDelete(occ, currentPosKey), nextPos.coordinates, id)]
      [] OTHER -> [position |-> pos, occupiedSquares |-> occ]

\* a slip: the continue of a refused move is missing, the move is carried out
RunCommandMissingContinue(ch, id, pos, occ, p) ==
    CASE ch = CmdLeft  -> [position |-> turnLeft(pos), occupiedSquares |-> occ]
      [] ch = CmdRight -> [position |-> turnRight(pos), occupiedSquares |-> occ]
      [] ch = CmdMove  ->
            LET currentPosKey == pos.coordinates
                nextPos == move(pos)
            IN  [position |-> set(pos, nextPos),
                 occupiedSquares |->
                     MapSet(MapDelete(occ, currentPosKey), nextPos.coordinates, id)]
      [] OTHER -> [position |-> pos, occupiedSquares |-> occ]

\* RunRover: the body of the loop over the commands for one character c;
\* the rover's position value and the occupancy map after it
RunCommand(ch, id, pos, occ, p) ==
    CASE ch = CmdLeft  -> [position |-> turnLeft(pos), occupiedSquares |-> occ]
      [] ch = CmdRight -> [position |-> turnRight(pos), occupiedSquares |-> occ]
      [] ch = CmdMove  ->
            LET currentPosKey == pos.coordinates
                nextPos == move(pos)
            IN  IF validate(occ, p, nextPos) # NoError
                THEN [position |-> pos, occupiedSquares |-> occ]
                ELSE [position |-> set(pos, nextPos),
                      occupiedSquares |->
                          MapSet(MapDelete(occ, currentPosKey), nextPos.coordinates, id)]
      [] OTHER -> [position |-> pos, occupiedSquares |-> occ]

\* RunRover: the loop over the commands, from the position value and the map
\* it starts with to those it ends with
RECURSIVE RunCommands(_, _, _, _, _)
RunCommands(cmds, id, pos, occ, p) ==
    IF cmds = <<>>
    THEN [position |-> pos, occupiedSquares |-> occ]
    ELSE LET after == RunCommand(Head(cmds), id, pos, occ, p)
         IN  RunCommands(Tail(cmds), id, after.position, after.occupiedSquares, p)

----------------------------------------------------------------------------
(* The parser (internal/parser/parser.go).  A text is a sequence of         *)
(* characters, each a string of length one.                                 *)

ErrParseInvalidFormat    == New("ErrParseInvalidFormat", "must have a plateau line first and pairs of rover lines")
ErrParsePlateauFormat    == New("ErrParsePlateauFormat", "wrong plateau element count, must be X Y")
ErrParsePositionFormat   == New("ErrParsePositionFormat", "wrong rover position element count, must be x y direction")
ErrParsePlateauX         == New("ErrParsePlateauX", "invalid plateau width")
ErrParsePlateauY         == New("ErrParsePlateauY", "invalid plateau height")
ErrParsePositionX        == New("ErrParsePositionX", "invalid position given for X coordinate")
ErrParsePositionY        == New("ErrParsePositionY", "invalid position given for Y coordinate")
ErrParseInvalidDirection == New("ErrParseInvalidDirection", "invalid direction given, must be N, E, S, W")
ErrParseInvalidCommand   == New("ErrParseInvalidCommand", "invalid command character given, must be L, R, M")

\* fmt.Errorf("%w" + format, sentinel, ...): the sentinel is wrapped, the rest
\* is text
Wrapf(sentinel, rest) == [is |-> sentinel.is, msg |-> sentinel.msg \o rest]

\* the printable characters of ASCII, from the space (code 32) on; the place of
\* the grave accent (code 96), which no string here can hold, is kept empty
Ascii ==
    <<" ", "!", "\"", "#", "$", "%", "&", "'", "(", ")", "*", "+", ",", "-", ".", "/",
      "0", "1", "2", "3", "4", "5", "6", "7", "8", "9", ":", ";", "<", "=", ">", "?",
      "@", "A", "B", "C", "D", "E", "F", "G", "H", "I", "J", "K", "L", "M", "N", "O",
      "P", "Q", "R", "S", "T", "U", "V", "W", "X", "Y", "Z", "[", "\\", "]", "^", "_",
      "", "a", "b", "c", "d", "e", "f", "g", "h", "i", "j", "k", "l", "m", "n", "o",
      "p", "q", "r", "s", "t", "u", "v", "w", "x", "y", "z", "{", "|", "}", "~">>

\* the code point of a character, as the verb %v prints a rune
CodePoint(ch) ==
    CASE ch = "\t" -> 9
      [] ch = "\n" -> 10
      [] ch = "\r" -> 13
      [] OTHER -> 31 + CHOOSE k \in 1..Len(Ascii) : Ascii[k] = ch

\* unicode.IsSpace, on the characters above
IsSpace(ch) == ch \in {" ", "\t", "\n", "\r"}

\* the text as one string
RECURSIVE Str(_)
Str(txt) == IF txt = <<>> THEN "" ELSE Head(txt) \o Str(Tail(txt))

\* strings.TrimSpace
TrimSpace(txt) ==
    LET solid == {k \in 1..Len(txt) : ~IsSpace(txt[k])} IN
    IF solid = {} THEN <<>>
    ELSE SubSeq(txt, CHOOSE k \in solid : \A j \in solid : k <= j,
                     CHOOSE k \in solid : \A j \in solid : k >= j)

\* the j-th smallest number of a set of numbers
Nth(numbers, j) ==
    CHOOSE k \in numbers : Cardinality({m \in numbers : m < k}) = j - 1

\* strings.Split(txt, sep) for a separator of one character: the pieces
\* between one separator (or the start) and the next (or the end)
Split(txt, sep) ==
    LET marks == {k \in 1..Len(txt) : txt[k] = sep} \cup {0, Len(txt) + 1} IN
    [j \in 1..(Cardinality(marks) - 1) |->
        SubSeq(txt, Nth(marks, j) + 1, Nth(marks, j + 1) - 1)]

\* strings.Fields: the maximal runs of characters that are not spaces
Fields(txt) ==
    LET starts == {k \in 1..Len(txt) :
                      ~IsSpace(txt[k]) /\ (k = 1 \/ IsSpace(txt[k - 1]))}
        ends == {k \in 1..Len(txt) :
                      ~IsSpace(txt[k]) /\ (k = Len(txt) \/ IsSpace(txt[k + 1]))}
    IN  [j \in 1..Cardinality(starts) |-> SubSeq(txt, Nth(starts, j), Nth(ends, j))]

\* strings.ToUpper, on the characters above
ToUpper(txt) ==
    [k \in 1..Len(txt) |->
        IF CodePoint(txt[k]) \in CodePoint("a")..CodePoint("z")
        THEN Ascii[CodePoint(txt[k]) - 31 - (CodePoint("a") - CodePoint("A"))]
        ELSE txt[k]]

RECURSIVE NatValue(_)
NatValue(digits) ==
    IF digits = <<>> THEN 0
    ELSE NatValue(SubSeq(digits, 1, Len(digits) - 1)) * 10
         + CHOOSE d \in 0..9 : Digit(d) = digits[Len(digits)]

\* strconv.Atoi: [val, err]; an optional sign and at least one decimal digit
\* (no text of the model is long enough for a range error)
Atoi(fld) ==
    LET signed == fld # <<>> /\ Head(fld) \in {"+", "-"}
        digits == IF signed THEN Tail(fld) ELSE fld
    IN  IF digits = <<>> \/ \E k \in 1..Len(digits) : digits[k] \notin {Digit(d) : d \in 0..9}
        THEN [val |-> 0,
              err |-> New("strconv.ErrSyntax",
                          "strconv.Atoi: parsing \"" \o Str(fld) \o "\": invalid syntax")]
        ELSE [val |-> IF signed /\ Head(fld) = "-" THEN 0 - NatValue(digits)
                                                   ELSE NatValue(digits),
              err |-> NoError]

\* parseDirection: [dir, err]
parseDirection(fld) ==
    LET upper == ToUpper(TrimSpace(fld)) IN
    CASE upper = <<"N">> -> [dir |-> N, err |-> NoError]
      [] upper = <<"E">> -> [dir |-> E, err |-> NoError]
      [] upper = <<"S">> -> [dir |-> S, err |-> NoError]
      [] upper = <<"W">> -> [dir |-> W, err |-> NoError]
      [] OTHER -> [dir |-> UnknownDirection,
                   err |-> Wrapf(ErrParseInvalidDirection, ": given " \o Str(fld))]

\* a slip: the line is validated but returned as it was given
parseCommandsLineAsGiven(line) ==
    LET upperLine == ToUpper(TrimSpace(line))
        bad == {k \in 1..Len(upperLine) : upperLine[k] \notin {CmdLeft, CmdRight, CmdMove}}
    IN  IF bad = {} THEN [cmds |-> TrimSpace(line), err |-> NoError]
        ELSE LET k == CHOOSE k \in bad : \A j \in bad : k <= j
             IN  [cmds |-> <<>>,
                  err |-> Wrapf(ErrParseInvalidCommand,
                                ": character " \o Itoa(CodePoint(upperLine[k]))
                                \o " at position " \o Itoa(k - 1))]

\* parseCommandsLine: [cmds, err]
parseCommandsLine(line) ==
    LET upperLine == ToUpper(TrimSpace(line))
        bad == {k \in 1..Len(upperLine) : upperLine[k] \notin {CmdLeft, CmdRight, CmdMove}}
    IN  IF bad = {} THEN [cmds |-> upperLine, err |-> NoError]
        ELSE LET k == CHOOSE k \in bad : \A j \in bad : k <= j
             IN  [cmds |-> <<>>,
                  err |-> Wrapf(ErrParseInvalidCommand,
                                ": character " \o Itoa(CodePoint(upperLine[k]))
                                \o " at position " \o Itoa(k - 1))]

\* parsePlateauLine: [plateau, err]
parsePlateauLine(line) ==
    LET parts == Fields(TrimSpace(line)) IN
    IF Len(parts) # 2
    THEN [plateau |-> Nil,
          err |-> Wrapf(ErrParsePlateauFormat,
                        ": want 2 elements, got " \o Itoa(Len(parts)))]
    ELSE IF Atoi(parts[1]).err # NoError
    THEN [plateau |-> Nil,
          err |-> Wrapf(ErrParsePlateauX,
                        ": " \o Str(parts[1]) \o " " \o Atoi(parts[1]).err.msg)]
    ELSE IF Atoi(parts[2]).err # NoError
    THEN [plateau |-> Nil,
          err |-> Wrapf(ErrParsePlateauY,
                        ": " \o Str(parts[2]) \o " " \o Atoi(parts[2]).err.msg)]
    ELSE NewPlateau(Atoi(parts[1]).val, Atoi(parts[2]).val)

\* a slip: the position is built without NewPosition and its checks
parsePositionLineUnchecked(line, p) ==
    LET parts == Fields(line) IN
    IF Len(parts) # 3
    THEN [pos |-> Nil,
          err |-> Wrapf(ErrParsePositionFormat,
                        ": want 3 elements, got " \o Itoa(Len(parts)))]
    ELSE IF Atoi(parts[1]).err # NoError
    THEN [pos |-> Nil, err |-> Wrapf(ErrParsePositionX, ": " \o Atoi(parts[1]).err.msg)]
    ELSE IF Atoi(parts[2]).err # NoError
    THEN [pos |-> Nil, err |-> Wrapf(ErrParsePositionY, ": " \o Atoi(parts[2]).err.msg)]
    ELSE IF parseDirection(parts[3]).err # NoError
    THEN [pos |-> Nil, err |-> parseDirection(parts[3]).err]
    ELSE [pos |-> Position(NewCoordinates(Atoi(parts[1]).val, Atoi(parts[2]).val),
                           parseDirection(parts[3]).dir),
          err |-> NoError]

\* parsePositionLine: [pos, err]
parsePositionLine(line, p) ==
    LET parts == Fields(line) IN
    IF Len(parts) # 3
    THEN [pos |-> Nil,
          err |-> Wrapf(ErrParsePositionFormat,
                        ": want 3 elements, got " \o Itoa(Len(parts)))]
    ELSE IF Atoi(parts[1]).err # NoError
    THEN [pos |-> Nil, err |-> Wrapf(ErrParsePositionX, ": " \o Atoi(parts[1]).err.msg)]
    ELSE IF Atoi(parts[2]).err # NoError
    THEN [pos |-> Nil, err |-> Wrapf(ErrParsePositionY, ": " \o Atoi(parts[2]).err.msg)]
    ELSE IF parseDirection(parts[3]).err # NoError
    THEN [pos |-> Nil, err |-> parseDirection(parts[3]).err]
    ELSE NewPosition(p, NewCoordinates(Atoi(parts[1]).val, Atoi(parts[2]).val),
                     parseDirection(parts[3]).dir)

----------------------------------------------------------------------------
(* Inputs *)

\* the missions of the README and of the tests, all on a 5 x 5 plateau
MissionPlateau == NewPlateau(5, 5).plateau

Instr(x, y, d, cmds) ==
    [made |-> NewPosition(MissionPlateau, NewCoordinates(x, y), d),
     Commands |-> cmds]

Missions == <<
    \* 1: README, TestMarsRoverRequirements, "ok - multiple rovers"
    << Instr(1, 2, N, <<"L","M","L","M","L","M","L","M","M">>),
       Instr(3, 3, E, <<"M","M","R","M","M","R","M","R","R","M">>) >>,
    \* 2: TestRoverCollisionDetection
    << Instr(3, 3, N, <<"L">>), Instr(3, 1, N, <<"M","M">>) >>,
    \* 3: TestRoverBoundaryRespect
    << Instr(0, 0, S, <<"M","M","M">>), Instr(5, 5, N, <<"M","M","M">>) >>,
    \* 4: "err - ErrRoverInstructions"
    << Instr(1, 2, N, <<"L","M","L","M","L","M","L","M","M">>),
       Instr(1, 3, N, <<"M","M","R","M","M","R","M","R","R","M">>) >>,
    \* 5: "err - ErrRoverCreating"
    << Instr(10, 2, N, <<"L","M","L","M","L","M","L","M","M">>),
       Instr(30, 3, E, <<"M","M","R","M","M","R","M","R","R","M">>) >>
  >>

CommandChars == {CmdLeft, CmdRight, CmdMove, "X"}

\* the positions a caller can hold: what NewPosition returned for some plateau
\* (possibly not this mission's), or the zero Position
StartPositions(p) ==
    {Position(NewCoordinates(x, y), d) :
        x \in 0..(p.maxX + Beyond), y \in 0..(p.maxY + Beyond), d \in {N, E, S, W}}
    \cup {Position(NewCoordinates(0, 0), UnknownDirection)}

\* the arguments of a prepared mission: NewPlateau(maxX, maxY) and, for each
\* rover, NewPosition(plateau, NewCoordinates(x, y), d) and the command string
NoRaw == [maxX |-> 0, maxY |-> 0, rovers |-> <<>>]
NoBuilt == [plateau |-> [plateau |-> Nil, err |-> NoError], made |-> <<>>]

RawRover(x, y, d, cmds) == [x |-> x, y |-> y, d |-> d, Commands |-> cmds]

\* the command strings of the prepared missions
Scripts == UNION {[1..len -> CommandChars] : len \in 0..MaxScript}

\* a rover that stays in the middle of the smallest plateau
Obstacle == RawRover(1, 1, N, <<>>)

\* the prepared missions: one call of each constructor with arguments inside
\* and outside what it accepts
ConstructorProbe(m) ==
    \E mx \in (minPlateauX - Beyond)..MaxPlateauX,
       my \in (minPlateauY - Beyond)..MaxPlateauY,
       x \in (0 - Beyond)..(MaxPlateauX + Beyond),
       y \in (0 - Beyond)..(MaxPlateauY + Beyond),
       d \in UnknownDirection..(W + Beyond) :
        m = [maxX |-> mx, maxY |-> my, rovers |-> <<RawRover(x, y, d, <<>>)>>]

\* the prepared missions: a rover with any command string, started anywhere on
\* a plateau, alone or after the obstacle
SingleRun(m) ==
    \E mx \in minPlateauX..MaxPlateauX, my \in minPlateauY..MaxPlateauY :
    \E x \in 0..mx, y \in 0..my, d \in {N, E, S, W}, cmds \in Scripts,
       before \in {<<>>, <<Obstacle>>} :
        m = [maxX |-> mx, maxY |-> my,
             rovers |-> before \o <<RawRover(x, y, d, cmds)>>]

\* prepared missions: the pointer instruction k holds, the positions made being
\* allocated in the order of the instructions
PtrOf(k) ==
    IF built.made[k].err # NoError THEN Nil
    ELSE Cardinality({j \in 1..k : built.made[j].err = NoError})

\* input.Instructions[i].InitialPosition, as drawn when the loop reaches it:
\* nil, a pointer an earlier instruction holds too, or a new Position object
\* (value given)
DrawnPositions ==
    IF mission < 0
    THEN {[InitialPosition |-> PtrOf(i + 1), value |-> Nil]}
    ELSE IF mission = 0
    THEN {[InitialPosition |-> ptr, value |-> v] : ptr \in {Nil}, v \in {Nil}}
         \cup {[InitialPosition |-> ptr, value |-> v] : ptr \in 1..Len(heap), v \in {Nil}}
         \cup {[InitialPosition |-> ptr, value |-> v] :
                  ptr \in {Len(heap) + 1}, v \in StartPositions(plateau)}
    ELSE LET in == Missions[mission][i + 1] IN
         IF in.made.err # NoError
         THEN {[InitialPosition |-> Nil, value |-> Nil]}
         ELSE {[InitialPosition |-> Len(heap) + 1, value |-> in.made.pos]}

\* the next character of the command string of instruction i, if there is one
DrawnCommands ==
    IF mission < 0
    THEN LET cmds == raw.rovers[i + 1].Commands IN
         IF ci < Len(cmds) THEN {cmds[ci + 1]} ELSE {}
    ELSE IF mission = 0
    THEN IF ci < MaxCommands THEN CommandChars ELSE {}
    ELSE LET cmds == Missions[mission][i + 1].Commands IN
         IF ci < Len(cmds) THEN {cmds[ci + 1]} ELSE {}

\* the command string of instruction i may end after ci characters
CommandsEnd ==
    IF mission < 0 THEN ci = Len(raw.rovers[i + 1].Commands)
    ELSE IF mission = 0 THEN TRUE
    ELSE ci = Len(Missions[mission][i + 1].Commands)

NoRover == [id |-> 0, position |-> Nil]

\* Parse has not been called
NoParse == [lines |-> <<>>, err |-> NoError]

\* outside App.Run: no App, nothing written
NoApp == [parser |-> "", mcf |-> "", output |-> ""]
NoStreams == [stdout |-> "", writer |-> ""]

\* one goroutine only
NoParked == [id |-> 0]
NoReturn == [output |-> <<>>, err |-> NoError]

----------------------------------------------------------------------------
(* The state machine *)

\* NewMissionControl(plateau) has returned; Execute(input) is entered
Init ==
    /\ \/ /\ mission = 0
          /\ plateau \in {NewPlateau(mx, my).plateau :
                             mx \in minPlateauX..MaxPlateauX, my \in minPlateauY..MaxPlateauY}
          /\ n \in 0..MaxRovers
       \/ /\ mission \in 1..Len(Missions)
          /\ plateau = MissionPlateau
          /\ n = Len(Missions[mission])
    /\ raw = NoRaw
    /\ built = NoBuilt
    /\ previous = <<>>
    /\ mc = Nil
    /\ controls = <<>>
    /\ parse = NoParse
    /\ app = NoApp
    /\ streams = NoStreams
    /\ statusCode = 0
    /\ runErr = NoError
    /\ parked = NoParked
    /\ heap = <<>>
    /\ occupiedSquares = EmptyMap
    /\ i = 0
    /\ initialPosition = Nil
    /\ currentRover = NoRover
    /\ rovers = <<>>
    /\ ci = 0
    /\ c = ""
    /\ err = NoError
    /\ output = <<>>
    /\ ret = NoReturn
    /\ pc = "loop"

\* Execute: the loop reaches index i; NewRover succeeds
CreateRover ==
    /\ pc = "loop" /\ i < n
    /\ \E in \in DrawnPositions :
         LET roverID == i + 1
             made == NewRover(roverID, in.InitialPosition)
         IN  /\ made.err = NoError
             /\ heap' = IF in.InitialPosition = Len(heap) + 1
                        THEN Append(heap, in.value) ELSE heap
             /\ initialPosition' = in.InitialPosition
             /\ currentRover' = made.rover
             /\ rovers' = Append(rovers, made.rover)
             /\ pc' = "RunRover"
    /\ UNCHANGED <<statusCode, mc, controls, parse, app, streams, runErr, parked, mission, raw, built, previous, plateau, n, occupiedSquares, i, ci, c, err, output, ret>>

\* a slip: the outputs computed so far are returned with the error
CreateRoverFailsPartial ==
    /\ pc = "loop" /\ i < n
    /\ \E in \in DrawnPositions :
         LET roverID == i + 1
             made == NewRover(roverID, in.InitialPosition)
         IN  /\ made.err # NoError
             /\ initialPosition' = in.InitialPosition
             /\ err' = made.err
             /\ ret' = [output |-> output,
                        err |-> ExecuteError(ErrRoverCreating, roverID, made.err)]
             /\ pc' = "done"
    /\ UNCHANGED <<statusCode, mc, controls, parse, app, streams, runErr, parked, mission, raw, built, previous, plateau, n, heap, occupiedSquares, i, currentRover,
                   rovers, ci, c, output>>

\* Execute: the loop reaches index i; NewRover fails, Execute returns
CreateRoverFails ==
    /\ pc = "loop" /\ i < n
    /\ \E in \in DrawnPositions :
         LET roverID == i + 1
             made == NewRover(roverID, in.InitialPosition)
         IN  /\ made.err # NoError
             /\ initialPosition' = in.InitialPosition
             /\ err' = made.err
             /\ ret' = [output |-> <<>>,
                        err |-> ExecuteError(ErrRoverCreating, roverID, made.err)]
             /\ pc' = "done"
    /\ UNCHANGED <<statusCode, mc, controls, parse, app, streams, runErr, parked, mission, raw, built, previous, plateau, n, heap, occupiedSquares, i, currentRover,
                   rovers, ci, c, output>>

\* a slip: the loop index is stored instead of the rover id
PlaceRoverLoopIndex ==
    /\ pc = "RunRover"
    /\ LET pos == heap[currentRover.position] IN
       /\ validate(occupiedSquares, plateau, pos) = NoError
       /\ occupiedSquares' = MapSet(occupiedSquares, pos.coordinates, i)
    /\ ci' = 0
    /\ pc' = "commands"
    /\ UNCHANGED <<statusCode, mc, controls, parse, app, streams, runErr, parked, mission, raw, built, previous, plateau, n, heap, i, initialPosition,
                   currentRover, rovers, c, err, output, ret>>

\* RunRover: the initial position is valid and free; the rover is registered
PlaceRover ==
    /\ pc = "RunRover"
    /\ LET pos == heap[currentRover.position] IN
       /\ validate(occupiedSquares, plateau, pos) = NoError
       /\ occupiedSquares' = MapSet(occupiedSquares, pos.coordinates, currentRover.id)
    /\ ci' = 0
    /\ pc' = "commands"
    /\ UNCHANGED <<statusCode, mc, controls, parse, app, streams, runErr, parked, mission, raw, built, previous, plateau, n, heap, i, initialPosition, currentRover,
                   rovers, c, err, output, ret>>

\* a slip: the cell is entered in the map before the position is validated
PlaceRoverFailsMarksCell ==
    /\ pc = "RunRover"
    /\ LET pos == heap[currentRover.position]
           invalid == validate(occupiedSquares, plateau, pos)
       IN  /\ invalid # NoError
           /\ err' = PlacementError(currentRover.id, pos, invalid)
           /\ ret' = [output |-> <<>>,
                      err |-> ExecuteError(ErrRoverInstructions, currentRover.id, err')]
           /\ occupiedSquares' = MapSet(occupiedSquares, pos.coordinates, currentRover.id)
    /\ pc' = "done"
    /\ UNCHANGED <<statusCode, mc, controls, parse, app, streams, runErr, parked, mission, raw, built, previous, plateau, n, heap, i, initialPosition,
                   currentRover, rovers, ci, c, output>>

\* RunRover: the initial position is rejected; RunRover and Execute return
PlaceRoverFails ==
    /\ pc = "RunRover"
    /\ LET pos == heap[currentRover.position]
           invalid == validate(occupiedSquares, plateau, pos)
       IN  /\ invalid # NoError
           /\ err' = PlacementError(currentRover.id, pos, invalid)
           /\ ret' = [output |-> <<>>,
                      err |-> ExecuteError(ErrRoverInstructions, currentRover.id, err')]
    /\ pc' = "done"
    /\ UNCHANGED <<statusCode, mc, controls, parse, app, streams, runErr, parked, mission, raw, built, previous, plateau, n, heap, occupiedSquares, i, initialPosition,
                   currentRover, rovers, ci, c, output>>

\* a slip: a blocked move is tried again instead of being skipped
CommandRetriesBlocked ==
    /\ pc = "commands"
    /\ \E ch \in DrawnCommands :
         LET after == RunCommand(ch, currentRover.id, heap[currentRover.position],
                                 occupiedSquares, plateau)
             blocked == ch = CmdMove /\ after.position = heap[currentRover.position]
         IN  /\ c' = ch
             /\ heap' = [heap EXCEPT ![currentRover.position] = after.position]
             /\ occupiedSquares' = after.occupiedSquares
             /\ ci' = IF blocked THEN ci ELSE ci + 1
    /\ UNCHANGED <<statusCode, mc, controls, parse, app, streams, runErr, parked, mission, raw, built, previous, plateau, n, i, initialPosition,
                   currentRover, rovers, err, output, ret, pc>>

\* RunRover: one character of the command string
Command ==
    /\ pc = "commands"
    /\ \E ch \in DrawnCommands :
         LET after == RunCommand(ch, currentRover.id, heap[currentRover.position],
                                 occupiedSquares, plateau)
         IN  /\ c' = ch
             /\ heap' = [heap EXCEPT ![currentRover.position] = after.position]
             /\ occupiedSquares' = after.occupiedSquares
    /\ ci' = ci + 1
    /\ UNCHANGED <<statusCode, mc, controls, parse, app, streams, runErr, parked, mission, raw, built, previous, plateau, n, i, initialPosition, currentRover, rovers,
                   err, output, ret, pc>>

\* a slip: the rendered position is put in front
RunRoverReturnsPrepend ==
    /\ pc = "commands" /\ CommandsEnd
    /\ output' = <<String(heap[currentRover.position])>> \o output
    /\ i' = i + 1
    /\ initialPosition' = Nil
    /\ currentRover' = NoRover
    /\ ci' = 0
    /\ c' = ""
    /\ pc' = "loop"
    /\ UNCHANGED <<statusCode, mc, controls, parse, app, streams, runErr, parked, mission, raw, built, previous, plateau, n, heap, occupiedSquares, rovers, err, ret>>

\* RunRover returns the rendered position; Execute appends it and goes on
RunRoverReturns ==
    /\ pc = "commands" /\ CommandsEnd
    /\ output' = Append(output, String(heap[currentRover.position]))
    /\ i' = i + 1
    /\ initialPosition' = Nil
    /\ currentRover' = NoRover
    /\ ci' = 0
    /\ c' = ""
    /\ pc' = "loop"
    /\ UNCHANGED <<statusCode, mc, controls, parse, app, streams, runErr, parked, mission, raw, built, previous, plateau, n, heap, occupiedSquares, rovers, err, ret>>

\* Execute: the loop is over, return output, nil
ExecuteReturns ==
    /\ pc = "loop" /\ i = n
    /\ ret' = [output |-> output, err |-> NoError]
    /\ pc' = "done"
    /\ UNCHANGED <<statusCode, mc, controls, parse, app, streams, runErr, parked, mission, raw, built, previous, plateau, n, heap, occupiedSquares, i, initialPosition,
                   currentRover, rovers, ci, c, err, output>>

Next ==
    \/ CreateRover
    \/ CreateRoverFails
    \/ PlaceRover
    \/ PlaceRoverFails
    \/ Command
    \/ RunRoverReturns
    \/ ExecuteReturns

Spec == Init /\ [][Next]_vars

----------------------------------------------------------------------------
(* Prepared missions: a caller builds the plateau and the instructions with *)
(* the constructors, as createTestPlateau and                               *)
(* createTestSingleRoverInstruction do, and then calls Execute.             *)

InitPrepared ==
    /\ mission = -1
    /\ ConstructorProbe(raw) \/ SingleRun(raw)
    /\ built = NoBuilt
    /\ previous = <<>>
    /\ mc = Nil
    /\ controls = <<>>
    /\ parse = NoParse
    /\ app = NoApp
    /\ streams = NoStreams
    /\ statusCode = 0
    /\ runErr = NoError
    /\ parked = NoParked
    /\ plateau = Nil
    /\ n = 0
    /\ heap = <<>>
    /\ occupiedSquares = EmptyMap
    /\ i = 0
    /\ initialPosition = Nil
    /\ currentRover = NoRover
    /\ rovers = <<>>
    /\ ci = 0
    /\ c = ""
    /\ err = NoError
    /\ output = <<>>
    /\ ret = NoReturn
    /\ pc = "build"

\* NewPlateau succeeds; each instruction gets what NewPosition returns for it
\* (nil on an error); NewMissionControl(plateau); Execute(input) is entered
Build ==
    /\ pc = "build"
    /\ LET p == NewPlateau(raw.maxX, raw.maxY)
           made == [k \in 1..Len(raw.rovers) |->
                       NewPosition(p.plateau,
                                   NewCoordinates(raw.rovers[k].x, raw.rovers[k].y),
                                   raw.rovers[k].d)]
           accepted == SelectSeq(made, LAMBDA m : m.err = NoError)
       IN  /\ p.err = NoError
           /\ built' = [plateau |-> p, made |-> made]
           /\ plateau' = p.plateau
           /\ n' = Len(raw.rovers)
           /\ heap' = [k \in 1..Len(accepted) |-> accepted[k].pos]
    /\ pc' = "loop"
    /\ UNCHANGED <<statusCode, mc, controls, parse, app, streams, runErr, parked, mission, raw, previous, occupiedSquares, i, initialPosition,
                   currentRover, rovers, ci, c, err, output, ret>>

\* NewPlateau fails: there is no plateau to make positions or a mission
\* control for
BuildFails ==
    /\ pc = "build"
    /\ LET p == NewPlateau(raw.maxX, raw.maxY)
       IN  /\ p.err # NoError
           /\ built' = [plateau |-> p, made |-> <<>>]
    /\ pc' = "rejected"
    /\ UNCHANGED <<statusCode, mc, controls, parse, app, streams, runErr, parked, mission, raw, previous, plateau, n, heap, occupiedSquares, i,
                   initialPosition, currentRover, rovers, ci, c, err, output, ret>>

NextPrepared ==
    \/ Build
    \/ BuildFails
    \/ Next

SpecPrepared == InitPrepared /\ [][NextPrepared]_vars

\* Execute runs to its end: nothing outside it can suspend the loops for ever.
\* Every step moves the position in the code: the place in Execute, the index
\* of the instruction, the index in the command string.
progress == <<pc, i, ci>>

FairPrepared == SpecPrepared /\ WF_progress(NextPrepared)

\* Execute has returned; the caller makes a new MissionControl for the same
\* plateau and calls Execute with the same input again
Rerun ==
    /\ pc = "done" /\ mission < 0
    /\ Len(previous) < MaxRuns - 1
    /\ previous' = Append(previous, ret)
    /\ occupiedSquares' = EmptyMap
    /\ i' = 0
    /\ initialPosition' = Nil
    /\ currentRover' = NoRover
    /\ rovers' = <<>>
    /\ ci' = 0
    /\ c' = ""
    /\ err' = NoError
    /\ output' = <<>>
    /\ ret' = NoReturn
    /\ pc' = "loop"
    /\ UNCHANGED <<statusCode, mc, controls, parse, app, streams, runErr, parked, mission, raw, built, plateau, n, heap>>

NextTwice ==
    \/ NextPrepared
    \/ Rerun

SpecTwice == InitPrepared /\ [][NextTwice]_vars

----------------------------------------------------------------------------
(* App.Run (internal/app/app.go): read the input, parse it, create the      *)
(* mission control, execute, write the output.                              *)

ErrPlateauIsNil   == New("ErrPlateauIsNil", "plateau must not be nil")
ErrAppInput       == New("ErrAppInput", "error reading input")
ErrAppParsing     == New("ErrAppParsing", "error parsing input")
ErrAppCreatingMC  == New("ErrAppCreatingMC", "error creating mission control")
ErrAppExecMission == New("ErrAppExecMission", "error executing mission")

\* NewMissionControl: [mc, err].  The plateau pointer is given as its maker
\* returned it, [plateau, err]: it is nil exactly when err is set.
NewMissionControl(p) ==
    IF p.err # NoError THEN [mc |-> Nil, err |-> ErrPlateauIsNil]
    ELSE [mc |-> [plateau |-> p.plateau, occupiedSquares |-> EmptyMap], err |-> NoError]

\* The lines of the input documents.  Each is the text of the line together
\* with what it says: form tells whether the line has the elements its kind of
\* line must have (two integers; two integers and a word; command letters
\* only), and the other fields are what the elements say, when form holds.
BasePlateauLines ==
    { [text |-> <<"2", " ", "2">>, form |-> TRUE, maxX |-> 2, maxY |-> 2] }

PlateauLines ==
    BasePlateauLines \cup
    { [text |-> <<"2", " ", "3">>, form |-> TRUE, maxX |-> 2, maxY |-> 3],
      [text |-> <<" ", "2", " ", " ", "2", "\r">>, form |-> TRUE, maxX |-> 2, maxY |-> 2],
      [text |-> <<"1", " ", "2">>, form |-> TRUE, maxX |-> 1, maxY |-> 2],
      [text |-> <<"2", " ", "-", "2">>, form |-> TRUE, maxX |-> 2, maxY |-> -2],
      [text |-> <<"2", " ", "x">>, form |-> FALSE, maxX |-> 0, maxY |-> 0],
      [text |-> <<"x", " ", "2">>, form |-> FALSE, maxX |-> 0, maxY |-> 0],
      [text |-> <<"2">>, form |-> FALSE, maxX |-> 0, maxY |-> 0],
      [text |-> <<"2", " ", "2", " ", "2">>, form |-> FALSE, maxX |-> 0, maxY |-> 0] }

BasePositionLines ==
    { [text |-> <<"0", " ", "0", " ", "N">>, form |-> TRUE, x |-> 0, y |-> 0, d |-> "N"],
      [text |-> <<"1", " ", "1", " ", "e">>, form |-> TRUE, x |-> 1, y |-> 1, d |-> "E"] }

PositionLines ==
    BasePositionLines \cup
    { [text |-> <<"2", " ", "1", " ", "S", "\r">>, form |-> TRUE, x |-> 2, y |-> 1, d |-> "S"],
      [text |-> <<"\t", "0", " ", " ", "2", " ", "w">>, form |-> TRUE, x |-> 0, y |-> 2, d |-> "W"],
      [text |-> <<"3", " ", "0", " ", "N">>, form |-> TRUE, x |-> 3, y |-> 0, d |-> "N"],
      [text |-> <<"0", " ", "-", "1", " ", "W">>, form |-> TRUE, x |-> 0, y |-> -1, d |-> "W"],
      [text |-> <<"0", " ", "0", " ", "Q">>, form |-> TRUE, x |-> 0, y |-> 0, d |-> "Q"],
      [text |-> <<"0", " ", "0", " ", "N", "E">>, form |-> TRUE, x |-> 0, y |-> 0, d |-> "NE"],
      [text |-> <<"x", " ", "0", " ", "N">>, form |-> FALSE, x |-> 0, y |-> 0, d |-> ""],
      [text |-> <<"0", " ", "x", " ", "N">>, form |-> FALSE, x |-> 0, y |-> 0, d |-> ""],
      [text |-> <<"0", " ", "0">>, form |-> FALSE, x |-> 0, y |-> 0, d |-> ""],
      [text |-> <<"0", " ", "0", " ", "N", " ", "N">>, form |-> FALSE, x |-> 0, y |-> 0, d |-> ""],
      [text |-> <<>>, form |-> FALSE, x |-> 0, y |-> 0, d |-> ""] }

BaseCommandLines ==
    { [text |-> <<"M", "M", "R">>, form |-> TRUE, cmds |-> <<"M", "M", "R">>],
      [text |-> <<"l", "m">>, form |-> TRUE, cmds |-> <<"L", "M">>] }

CommandLines ==
    BaseCommandLines \cup
    { [text |-> <<>>, form |-> TRUE, cmds |-> <<>>],
      [text |-> <<" ", "L", "\r">>, form |-> TRUE, cmds |-> <<"L">>],
      [text |-> <<"M", "X", "L">>, form |-> FALSE, cmds |-> <<>>],
      [text |-> <<"M", " ", "R">>, form |-> FALSE, cmds |-> <<>>],
      [text |-> <<"1", " ", "1", " ", "N">>, form |-> FALSE, cmds |-> <<>>] }

RECURSIVE Join(_, _)
Join(lines, sep) ==
    IF lines = <<>> THEN <<>>
    ELSE IF Len(lines) = 1 THEN lines[1]
    ELSE lines[1] \o <<sep>> \o Join(Tail(lines), sep)

\* the lines of a document, in order: the plateau line, the two lines of each
\* rover, then the lines left over
RECURSIVE LinesOf(_)
LinesOf(doc) ==
    IF doc.rovers # <<>>
    THEN LET last == doc.rovers[Len(doc.rovers)]
         IN  LinesOf([doc EXCEPT !.rovers = SubSeq(@, 1, Len(@) - 1), !.rest = <<>>])
             \o <<last.position.text, last.cmds.text>> \o doc.rest
    ELSE <<doc.plateau.text>> \o doc.rest

\* the text of a document; a framed one starts and ends with an empty line, as
\* the inputs of TestParse do
Render(doc) ==
    IF doc.framed THEN <<"\n">> \o Join(LinesOf(doc), "\n") \o <<"\n", "\t">>
    ELSE Join(LinesOf(doc), "\n")

\* documents where every line is a usual one
BaseDocuments ==
    [plateau : BasePlateauLines,
     rovers : UNION {[1..count -> [position : BasePositionLines, cmds : BaseCommandLines]] :
                        count \in 0..MaxPairs},
     rest : {<<>>},
     framed : {FALSE}]

\* the documents Run is given: a base document, or one with a single change:
\* another plateau line, another line for one rover, a line left over, a frame
Documents ==
    BaseDocuments
    \cup {[base EXCEPT !.plateau = pla] : base \in BaseDocuments, pla \in PlateauLines}
    \cup UNION {{[base EXCEPT !.rovers[k].position = pos] :
                    k \in 1..Len(base.rovers), pos \in PositionLines} : base \in BaseDocuments}
    \cup UNION {{[base EXCEPT !.rovers[k].cmds = cmd] :
                    k \in 1..Len(base.rovers), cmd \in CommandLines} : base \in BaseDocuments}
    \cup {[base EXCEPT !.rest = <<pos.text>>] : base \in BaseDocuments, pos \in BasePositionLines}
    \cup {[base EXCEPT !.framed = TRUE] : base \in BaseDocuments}

\* what a caller gets from the constructors for the arguments m, when the
\* errors are dropped as the helpers of the tests drop them
Constructed(m) ==
    LET p == NewPlateau(m.maxX, m.maxY) IN
    [plateau |-> p,
     made |-> IF p.err # NoError THEN <<>>
              ELSE [k \in 1..Len(m.rovers) |->
                       NewPosition(p.plateau,
                                   NewCoordinates(m.rovers[k].x, m.rovers[k].y),
                                   m.rovers[k].d)]]

\* what the mock parsers return: an error; a plateau and two instructions, the
\* second without a position; no plateau and no error
Stubs ==
    { [raw |-> NoRaw, err |-> New("mock", "parse error")],
      [raw |-> [maxX |-> 2, maxY |-> 2,
                rovers |-> <<RawRover(0, 0, N, <<"M">>), RawRover(0, 3, N, <<"M">>)>>],
       err |-> NoError],
      [raw |-> [maxX |-> 1, maxY |-> 2, rovers |-> <<>>], err |-> NoError] }

\* os.Stdin or a file that cannot be read to its end (errReader)
ReadError == New("reader", "read error")

\* the error of the mock factory
CreateError == New("mock", "mc creation failed")

\* the Apps: the parser on every document, writing to a buffer; the parser on
\* the base documents with either factory, either writer and either reader; a
\* mock parser
Apps(a) ==
    \/ \E doc \in Documents :
          a = [parser |-> "parser", stub |-> [raw |-> NoRaw, err |-> NoError],
               mcf |-> "default",
               input |-> [doc |-> doc, data |-> Render(doc), err |-> NoError],
               output |-> "writer"]
    \/ \E doc \in BaseDocuments, mcf \in {"default", "mock"},
          out \in {"stdout", "writer"}, e \in {NoError, ReadError} :
          a = [parser |-> "parser", stub |-> [raw |-> NoRaw, err |-> NoError],
               mcf |-> mcf,
               input |-> [doc |-> doc, data |-> Render(doc), err |-> e],
               output |-> out]
    \/ \E stub \in Stubs, doc \in {d \in BaseDocuments : Len(d.rovers) = 1} :
          a = [parser |-> "mock", stub |-> stub,
               mcf |-> "default",
               input |-> [doc |-> doc, data |-> Render(doc), err |-> NoError],
               output |-> "writer"]

\* a.mcf.Create(plateau): [mc, err]
FactoryCreate(a, p) ==
    IF a.mcf = "mock" THEN [mc |-> Nil, err |-> CreateError]
    ELSE NewMissionControl(p)

\* fmt.Fprint* on the writer w
Write(strm, w, text) == [strm EXCEPT ![w] = @ \o text]

\* the loop of Run over the output of Execute: Fprintln(a.output, ...)
RECURSIVE WriteLines(_, _, _)
WriteLines(strm, w, lines) ==
    IF lines = <<>> THEN strm
    ELSE WriteLines(Write(strm, w, Head(lines) \o "\n"), w, Tail(lines))

InitApp ==
    /\ mission = -2
    /\ mc = Nil
    /\ controls = <<>>
    /\ parse = NoParse
    /\ Apps(app)
    /\ streams = NoStreams
    /\ statusCode = 0
    /\ runErr = NoError
    /\ parked = NoParked
    /\ raw = NoRaw
    /\ built = NoBuilt
    /\ previous = <<>>
    /\ plateau = Nil
    /\ n = 0
    /\ heap = <<>>
    /\ occupiedSquares = EmptyMap
    /\ i = 0
    /\ initialPosition = Nil
    /\ currentRover = NoRover
    /\ rovers = <<>>
    /\ ci = 0
    /\ c = ""
    /\ err = NoError
    /\ output = <<>>
    /\ ret = NoReturn
    /\ pc = "read"

\* Run: io.ReadAll(a.input) succeeds
ReadAll ==
    /\ pc = "read"
    /\ app.input.err = NoError
    /\ pc' = "parse"
    /\ UNCHANGED <<statusCode, mc, controls, parse, app, streams, runErr, parked, mission, raw, built, previous, plateau, n, heap,
                   occupiedSquares, i, initialPosition, currentRover, rovers, ci, c,
                   err, output, ret>>

\* Run: io.ReadAll fails; fmt.Errorf("%w: %v", ErrAppInput, err)
ReadAllFails ==
    /\ pc = "read"
    /\ app.input.err # NoError
    /\ runErr' = Wrapf(ErrAppInput, ": " \o app.input.err.msg)
    /\ pc' = "exit"
    /\ UNCHANGED <<statusCode, mc, controls, parse, app, streams, parked, mission, raw, built, previous, plateau, n, heap,
                   occupiedSquares, i, initialPosition, currentRover, rovers, ci, c,
                   err, output, ret>>

\* Parse: the input is trimmed and split into lines; one plateau line and
\* pairs of lines, at least one pair, or Parse returns nil, nil,
\* ErrParseInvalidFormat
ParseLines ==
    /\ pc = "parse"
    /\ app.parser = "parser"
    /\ LET lines == Split(TrimSpace(app.input.data), "\n")
           wrong == Len(lines) < 3 \/ (Len(lines) - 1) % 2 # 0
       IN  /\ parse' = [lines |-> lines,
                        err |-> IF wrong THEN ErrParseInvalidFormat ELSE NoError]
           /\ built' = IF wrong
                       THEN [plateau |-> [plateau |-> Nil, err |-> ErrParseInvalidFormat],
                             made |-> <<>>]
                       ELSE built
           /\ pc' = IF wrong THEN "parsed" ELSE "plateauLine"
    /\ UNCHANGED <<statusCode, mc, controls, app, streams, runErr, parked, mission, raw, previous, plateau,
                   n, heap, occupiedSquares, i, initialPosition, currentRover, rovers,
                   ci, c, err, output, ret>>

\* Parse: parsePlateauLine(lines[0]); on an error Parse returns nil, nil, err
ParsePlateauLine ==
    /\ pc = "plateauLine"
    /\ LET made == parsePlateauLine(parse.lines[1])
       IN  /\ built' = [built EXCEPT !.plateau = made]
           /\ raw' = IF made.err # NoError THEN raw
                     ELSE [raw EXCEPT !.maxX = made.plateau.maxX,
                                      !.maxY = made.plateau.maxY]
           /\ parse' = [parse EXCEPT !.err = made.err]
           /\ pc' = IF made.err # NoError THEN "parsed" ELSE "roverLines"
    /\ UNCHANGED <<statusCode, mc, controls, app, streams, runErr, parked, mission, previous, plateau, n, heap,
                   occupiedSquares, i, initialPosition, currentRover, rovers, ci, c,
                   err, output, ret>>

\* Parse: one turn of the loop over the pairs of lines, at the index 1, 3, ...
\* after the instructions made so far: parsePositionLine, then
\* parseCommandsLine, then the instruction is appended; on an error Parse
\* returns nil, nil, err
ParseRoverLines ==
    /\ pc = "roverLines"
    /\ LET at == 1 + 2 * Len(built.made)
       IN  /\ at < Len(parse.lines)
           /\ LET position == parsePositionLine(parse.lines[at + 1], built.plateau.plateau)
                  commands == IF position.err # NoError
                              THEN [cmds |-> <<>>, err |-> position.err]
                              ELSE parseCommandsLine(parse.lines[at + 2])
              IN  IF commands.err # NoError
                  THEN /\ parse' = [parse EXCEPT !.err = commands.err]
                       /\ built' = [plateau |-> [plateau |-> Nil, err |-> commands.err],
                                    made |-> <<>>]
                       /\ raw' = NoRaw
                       /\ heap' = heap
                       /\ pc' = "parsed"
                  ELSE /\ parse' = parse
                       /\ built' = [built EXCEPT !.made = Append(@, position)]
                       /\ raw' = [raw EXCEPT !.rovers =
                                     Append(@, RawRover(position.pos.coordinates.x,
                                                        position.pos.coordinates.y,
                                                        position.pos.direction,
                                                        commands.cmds))]
                       /\ heap' = Append(heap, position.pos)
                       /\ pc' = "roverLines"
    /\ UNCHANGED <<statusCode, mc, controls, app, streams, runErr, parked, mission, previous, plateau, n,
                   occupiedSquares, i, initialPosition, currentRover, rovers, ci, c,
                   err, output, ret>>

\* Parse: the loop is over; return plateau, instructions, nil
ParseReturns ==
    /\ pc = "roverLines"
    /\ 1 + 2 * Len(built.made) >= Len(parse.lines)
    /\ pc' = "parsed"
    /\ UNCHANGED <<statusCode, mc, controls, parse, app, streams, runErr, parked, mission, raw, built, previous, plateau,
                   n, heap, occupiedSquares, i, initialPosition, currentRover, rovers,
                   ci, c, err, output, ret>>

\* a mock parser returns what the test prepared
MockParse ==
    /\ pc = "parse"
    /\ app.parser = "mock"
    /\ parse' = [lines |-> <<>>, err |-> app.stub.err]
    /\ raw' = app.stub.raw
    /\ built' = Constructed(app.stub.raw)
    /\ heap' = LET accepted == SelectSeq(Constructed(app.stub.raw).made,
                                         LAMBDA m : m.err = NoError)
               IN  [k \in 1..Len(accepted) |-> accepted[k].pos]
    /\ pc' = "parsed"
    /\ UNCHANGED <<statusCode, mc, controls, app, streams, runErr, parked, mission, previous, plateau, n,
                   occupiedSquares, i, initialPosition, currentRover, rovers, ci, c,
                   err, output, ret>>

\* Run: a.parser.Parse has returned no error
RunParse ==
    /\ pc = "parsed"
    /\ parse.err = NoError
    /\ pc' = "create"
    /\ UNCHANGED <<statusCode, mc, controls, parse, app, streams, runErr, parked, mission, raw, built, previous, plateau,
                   n, heap, occupiedSquares, i, initialPosition, currentRover, rovers,
                   ci, c, err, output, ret>>

\* a slip: the error of Parse is noted, and Run goes on to Create
RunParseFailsGoesOn ==
    /\ pc = "parsed"
    /\ parse.err # NoError
    /\ runErr' = Wrapf(ErrAppParsing, ": " \o parse.err.msg)
    /\ pc' = "create"
    /\ UNCHANGED <<statusCode, mc, controls, parse, app, streams, parked, mission, raw, built, previous, plateau, n,
                   heap, occupiedSquares, i, initialPosition, currentRover, rovers, ci,
                   c, err, output, ret>>

\* Run: a.parser.Parse has failed; fmt.Errorf("%w: %s", ErrAppParsing, err)
RunParseFails ==
    /\ pc = "parsed"
    /\ parse.err # NoError
    /\ runErr' = Wrapf(ErrAppParsing, ": " \o parse.err.msg)
    /\ pc' = "exit"
    /\ UNCHANGED <<statusCode, mc, controls, parse, app, streams, parked, mission, raw, built, previous, plateau, n,
                   heap, occupiedSquares, i, initialPosition, currentRover, rovers, ci,
                   c, err, output, ret>>

\* a slip: the factory keeps the MissionControl it made first and hands it
\* out again
CreateReusesFirst ==
    /\ pc = "create"
    /\ LET made == FactoryCreate(app, built.plateau)
       IN  /\ made.err = NoError
           /\ mc' = IF controls = <<>> THEN Len(controls) + 1 ELSE 1
           /\ controls' = IF controls = <<>>
                          THEN Append(controls, made.mc.occupiedSquares) ELSE controls
           /\ plateau' = made.mc.plateau
           /\ occupiedSquares' = IF controls = <<>>
                                 THEN made.mc.occupiedSquares ELSE controls[1]
    /\ n' = Len(raw.rovers)
    /\ pc' = "loop"
    /\ UNCHANGED <<statusCode, parse, app, streams, runErr, parked, mission, raw, built, previous, heap,
                   i, initialPosition, currentRover, rovers, ci, c, err, output, ret>>

\* Run: a.mcf.Create(plateau) succeeds with a new MissionControl; Execute is
\* entered with the instructions
Create ==
    /\ pc = "create"
    /\ LET made == FactoryCreate(app, built.plateau)
       IN  /\ made.err = NoError
           /\ mc' = Len(controls) + 1
           /\ controls' = Append(controls, made.mc.occupiedSquares)
           /\ plateau' = made.mc.plateau
           /\ occupiedSquares' = made.mc.occupiedSquares
    /\ n' = Len(raw.rovers)
    /\ pc' = "loop"
    /\ UNCHANGED <<statusCode, parse, app, streams, runErr, parked, mission, raw, built, previous, heap,
                   i, initialPosition, currentRover, rovers, ci, c, err, output, ret>>

\* Run: a.mcf.Create fails; fmt.Errorf("%w: %v", ErrAppCreatingMC, err)
CreateFails ==
    /\ pc = "create"
    /\ LET made == FactoryCreate(app, built.plateau)
       IN  /\ made.err # NoError
           /\ runErr' = Wrapf(ErrAppCreatingMC, ": " \o made.err.msg)
    /\ pc' = "exit"
    /\ UNCHANGED <<statusCode, mc, controls, parse, app, streams, parked, mission, raw, built, previous, plateau, n, heap,
                   occupiedSquares, i, initialPosition, currentRover, rovers, ci, c,
                   err, output, ret>>

\* Run: Execute has failed; fmt.Errorf("%w: %v", ErrAppExecMission, err)
RunExecuteFails ==
    /\ pc = "done" /\ mission = -2
    /\ ret.err # NoError
    /\ runErr' = Wrapf(ErrAppExecMission, ": " \o ret.err.msg)
    /\ pc' = "exit"
    /\ UNCHANGED <<statusCode, mc, controls, parse, app, streams, parked, mission, raw, built, previous, plateau, n, heap,
                   occupiedSquares, i, initialPosition, currentRover, rovers, ci, c,
                   err, output, ret>>

\* Run: Execute has succeeded; the header goes to a.output with Fprintf and no
\* newline, fmt.Println() writes a newline to os.Stdout, and each line of the
\* output goes to a.output with Fprintln
RunWrites ==
    /\ pc = "done" /\ mission = -2
    /\ ret.err = NoError
    /\ streams' =
          WriteLines(
              Write(Write(streams, app.output,
                          "info: Mission complete. Final rover positions:"),
                    "stdout", "\n"),
              app.output, ret.output)
    /\ runErr' = NoError
    /\ pc' = "exit"
    /\ UNCHANGED <<statusCode, mc, controls, parse, app, parked, mission, raw, built, previous, plateau, n, heap,
                   occupiedSquares, i, initialPosition, currentRover, rovers, ci, c,
                   err, output, ret>>

NextApp ==
    \/ ReadAll
    \/ ReadAllFails
    \/ ParseLines
    \/ ParsePlateauLine
    \/ ParseRoverLines
    \/ ParseReturns
    \/ MockParse
    \/ RunParse
    \/ RunParseFails
    \/ Create
    \/ CreateFails
    \/ Next
    \/ RunExecuteFails
    \/ RunWrites

SpecApp == InitApp /\ [][NextApp]_vars

----------------------------------------------------------------------------
(* Two requests at once (internal/webapi/handler.go): handleMission runs on *)
(* one goroutine per request, each with its own App, body and response      *)
(* writer; the parser, the factory and os.Stdout are those of the server.   *)
(* One goroutine runs while the other is parked with its local variables;   *)
(* the MissionControl objects are in the memory both can reach.             *)

\* the local variables of the running goroutine
Locals ==
    [mc |-> mc, parse |-> parse, app |-> app, writer |-> streams.writer,
     runErr |-> runErr, raw |-> raw, built |-> built, plateau |-> plateau, n |-> n,
     heap |-> heap, i |-> i, initialPosition |-> initialPosition,
     currentRover |-> currentRover, rovers |-> rovers, ci |-> ci, c |-> c,
     err |-> err, output |-> output, ret |-> ret, pc |-> pc]

\* the local variables of a goroutine that has not started Run yet
StartLocals(a) ==
    [mc |-> Nil, parse |-> NoParse, app |-> a, writer |-> "",
     runErr |-> NoError, raw |-> NoRaw, built |-> NoBuilt, plateau |-> Nil, n |-> 0,
     heap |-> <<>>, i |-> 0, initialPosition |-> Nil,
     currentRover |-> NoRover, rovers |-> <<>>, ci |-> 0, c |-> "",
     err |-> NoError, output |-> <<>>, ret |-> NoReturn, pc |-> "read"]

\* the Apps of the requests: the parser on the base documents of at most
\* MaxJoint rovers that all run the first command line, and on a document
\* whose second rover starts where the first one stays; a body that cannot be
\* read; a failing factory; the mock parsers
JointApps ==
    LET run == CHOOSE line \in BaseCommandLines : line.cmds = <<"M", "M", "R">>
        stay == CHOOSE line \in BaseCommandLines : line.cmds = <<"L", "M">>
        corner == CHOOSE line \in BasePositionLines : line.x = 0 /\ line.y = 0
        few == {doc \in BaseDocuments :
                   /\ Len(doc.rovers) <= MaxJoint
                   /\ \A k \in 1..Len(doc.rovers) : doc.rovers[k].cmds = run}
        one == CHOOSE doc \in few : Len(doc.rovers) = 1
        clash == [one EXCEPT !.rovers = <<[position |-> corner, cmds |-> stay],
                                          [position |-> corner, cmds |-> stay]>>]
        given(doc, e) == [doc |-> doc, data |-> Render(doc), err |-> e]
        none == [raw |-> NoRaw, err |-> NoError]
    IN  {[parser |-> "parser", stub |-> none, mcf |-> "default",
          input |-> given(doc, NoError), output |-> "writer"] : doc \in few \cup {clash}}
        \cup {[parser |-> "parser", stub |-> none, mcf |-> "default",
               input |-> given(one, ReadError), output |-> "writer"]}
        \cup {[parser |-> "parser", stub |-> none, mcf |-> "mock",
               input |-> given(one, NoError), output |-> "writer"]}
        \cup {[parser |-> "mock", stub |-> stub, mcf |-> "default",
               input |-> given(one, NoError), output |-> "writer"] : stub \in Stubs}

InitConcurrent ==
    /\ mission = -2
    /\ mc = Nil
    /\ controls = <<>>
    /\ parse = NoParse
    /\ app \in JointApps
    /\ streams = NoStreams
    /\ statusCode = 0
    /\ runErr = NoError
    /\ \E other \in JointApps : parked = [id |-> 2, locals |-> StartLocals(other)]
    /\ raw = NoRaw
    /\ built = NoBuilt
    /\ previous = <<>>
    /\ plateau = Nil
    /\ n = 0
    /\ heap = <<>>
    /\ occupiedSquares = EmptyMap
    /\ i = 0
    /\ initialPosition = Nil
    /\ currentRover = NoRover
    /\ rovers = <<>>
    /\ ci = 0
    /\ c = ""
    /\ err = NoError
    /\ output = <<>>
    /\ ret = NoReturn
    /\ pc = "read"

\* the scheduler parks the running goroutine and runs the other one, if it has
\* not returned: the map of the running goroutine's MissionControl stays in
\* memory, and the other goroutine goes on with its own local variables and
\* the map of the MissionControl its mc points to
Switch ==
    /\ parked.id # 0
    /\ parked.locals.pc # "exit"
    /\ parked' = [id |-> 3 - parked.id, locals |-> Locals]
    /\ controls' = IF mc = Nil THEN controls
                   ELSE [controls EXCEPT ![mc] = occupiedSquares]
    /\ occupiedSquares' = IF parked.locals.mc = Nil THEN EmptyMap
                          ELSE controls'[parked.locals.mc]
    /\ mc' = parked.locals.mc
    /\ parse' = parked.locals.parse
    /\ app' = parked.locals.app
    /\ streams' = [stdout |-> streams.stdout, writer |-> parked.locals.writer]
    /\ runErr' = parked.locals.runErr
    /\ raw' = parked.locals.raw
    /\ built' = parked.locals.built
    /\ plateau' = parked.locals.plateau
    /\ n' = parked.locals.n
    /\ heap' = parked.locals.heap
    /\ i' = parked.locals.i
    /\ initialPosition' = parked.locals.initialPosition
    /\ currentRover' = parked.locals.currentRover
    /\ rovers' = parked.locals.rovers
    /\ ci' = parked.locals.ci
    /\ c' = parked.locals.c
    /\ err' = parked.locals.err
    /\ output' = parked.locals.output
    /\ ret' = parked.locals.ret
    /\ pc' = parked.locals.pc
    /\ UNCHANGED <<statusCode, mission, previous>>

NextConcurrent ==
    \/ Switch
    \/ NextApp

SpecConcurrent == InitConcurrent /\ [][NextConcurrent]_vars

----------------------------------------------------------------------------
(* Vocabulary of the properties *)

Directions == {N, E, S, W}

\* the cells of the plateau
PlateauCells ==
    {NewCoordinates(x, y) : x \in 0..plateau.maxX, y \in 0..plateau.maxY}

\* the strings that put a rover on the cell
RenderingsOf(cell) ==
    {String(Position(cell, d)) : d \in Directions \cup {UnknownDirection}}

\* the cell one step ahead of a position, in its facing
CellAhead(pos) ==
    CASE pos.direction = N -> NewCoordinates(pos.coordinates.x, pos.coordinates.y + 1)
      [] pos.direction = E -> NewCoordinates(pos.coordinates.x + 1, pos.coordinates.y)
      [] pos.direction = S -> NewCoordinates(pos.coordinates.x, pos.coordinates.y - 1)
      [] pos.direction = W -> NewCoordinates(pos.coordinates.x - 1, pos.coordinates.y)
      [] OTHER -> pos.coordinates

\* the position of the rover RunRover is working on
Cur == heap[currentRover.position]

\* where rover j (1-based) stands
PositionOf(j) == heap[rovers[j].position]

Running == pc \in {"RunRover", "commands"}

\* Execute has returned and nothing happens after that
Returned == [][pc # "done"]_vars

----------------------------------------------------------------------------
(* C1: after a successful Execute on a fresh MissionControl every returned   *)
(* string puts its rover on a cell of the plateau, and no two of them name   *)
(* the same cell.                                                            *)
C1_FinalCellsDistinct ==
    (pc = "done" /\ ret.err = NoError) =>
        /\ \A j \in 1..Len(ret.output) :
              \E cell \in PlateauCells : ret.output[j] \in RenderingsOf(cell)
        /\ \A j, k \in 1..Len(ret.output) :
              j < k => \A cell \in PlateauCells :
                  ~ (ret.output[j] \in RenderingsOf(cell)
                     /\ ret.output[k] \in RenderingsOf(cell))

\* two rovers ended, the second next to the first and facing it
C1_Witness ==
    /\ pc = "done" /\ ret.err = NoError /\ Len(ret.output) = 2
    /\ CellAhead(PositionOf(2)) = PositionOf(1).coordinates

(* C2: a placed rover is inside the plateau after every command; an M whose  *)
(* candidate cell is outside the plateau changes neither the rover nor the   *)
(* map, and RunRover goes on and returns no error.                           *)
C2_StaysInsidePlateau ==
    /\ [](pc = "commands" => Cur.coordinates \in PlateauCells)
    /\ [][pc = "commands" =>
            /\ pc' \in {"commands", "loop"}
            /\ ret' = NoReturn /\ err' = NoError
            /\ (c' = CmdMove /\ CellAhead(Cur) \notin PlateauCells) =>
                  /\ heap' = heap
                  /\ occupiedSquares' = occupiedSquares
                  /\ pc' = "commands" /\ ci' = ci + 1
         ]_vars

\* TestRoverBoundaryRespect: the first rover after its three M at (0,0) facing S
C2_Witness ==
    /\ mission = 3 /\ pc = "commands" /\ i = 0 /\ ci = 3 /\ c = CmdMove
    /\ Cur = Position(NewCoordinates(0, 0), S)

(* C3: an M whose candidate cell is held by another rover changes neither    *)
(* the rover's position nor the occupancy map; RunRover goes on with the     *)
(* next command and raises no error.                                         *)
C3_BlockedMoveIgnored ==
    [][(/\ pc = "commands" /\ c' = CmdMove
        /\ CellAhead(Cur) \in DOMAIN occupiedSquares
        /\ occupiedSquares[CellAhead(Cur)] # currentRover.id) =>
            /\ heap' = heap
            /\ occupiedSquares' = occupiedSquares
            /\ pc' = "commands" /\ ci' = ci + 1
            /\ ret' = NoReturn /\ err' = NoError
      ]_vars

\* TestRoverCollisionDetection: the second rover after MM, one cell short of
\* the first
C3_Witness ==
    /\ mission = 2 /\ pc = "commands" /\ i = 1 /\ ci = 2 /\ c = CmdMove
    /\ Cur = Position(NewCoordinates(3, 2), N)
    /\ CellAhead(Cur) = PositionOf(1).coordinates

(* C4: RunRover on a rover whose cell is outside the plateau or already a    *)
(* key of the occupancy map returns an error at once (RoverCollision for an  *)
(* occupied cell, PositionOutOfBounds outside): no command is processed and  *)
(* neither the map nor the rover's position changes.                         *)
C4_PlacementRejected ==
    [][(/\ pc = "RunRover"
        /\ \/ Cur.coordinates \notin PlateauCells
           \/ Cur.coordinates \in DOMAIN occupiedSquares) =>
            /\ pc' = "done"
            /\ err' # NoError
            /\ Cur.coordinates \in DOMAIN occupiedSquares => Is(err', ErrRoverCollision)
            /\ Cur.coordinates \notin PlateauCells => Is(err', ErrPositionOutOfBounds)
            /\ occupiedSquares' = occupiedSquares
            /\ heap' = heap
            /\ ci' = ci /\ c' = c
      ]_vars

\* the second rover was put on the cell of the first
C4_Witness ==
    /\ pc = "done" /\ i = 1 /\ Len(rovers) = 2
    /\ rovers[1].position # rovers[2].position
    /\ PositionOf(2).coordinates = PositionOf(1).coordinates
    /\ Is(err, ErrRoverCollision)

(* C5: rovers are handled in input order, and while rover i+1 is placed and  *)
(* run the occupancy map holds, for the earlier rovers, exactly the cells    *)
(* they ended on (as reported in the output), each under its own id; at the  *)
(* placement it holds nothing else.                                          *)
C5_EarlierRoversVisible ==
    Running =>
        /\ currentRover.id = i + 1
        /\ Len(rovers) = i + 1
        /\ Len(output) = i
        /\ \A j \in 1..i :
              /\ rovers[j].id = j
              /\ output[j] = String(PositionOf(j))
              /\ PositionOf(j).coordinates \in DOMAIN occupiedSquares
              /\ occupiedSquares[PositionOf(j).coordinates] = j
        /\ {sq \in DOMAIN occupiedSquares : occupiedSquares[sq] # i + 1}
              = {PositionOf(j).coordinates : j \in 1..i}
        /\ pc = "RunRover" =>
              DOMAIN occupiedSquares = {PositionOf(j).coordinates : j \in 1..i}

\* "err - ErrRoverInstructions": the second rover is about to be placed on
\* (1,3), where the first ended after starting on (1,2)
C5_Witness ==
    /\ mission = 4 /\ pc = "RunRover" /\ i = 1
    /\ DOMAIN occupiedSquares = {NewCoordinates(1, 3)}
    /\ Cur.coordinates = NewCoordinates(1, 3)

(* C6: a successful Execute over n instructions returns n strings, the j-th  *)
(* being the rendering of the final position of the rover built from the     *)
(* j-th instruction.                                                         *)
C6_OutputInInputOrder ==
    (pc = "done" /\ ret.err = NoError) =>
        /\ Len(ret.output) = n
        /\ Len(rovers) = n
        /\ \A j \in 1..n :
              /\ rovers[j].id = j
              /\ ret.output[j] = String(PositionOf(j))

C6_Witness ==
    /\ pc = "done" /\ ret.err = NoError /\ n = 2
    /\ ret.output[1] # ret.output[2]

(* C7: on the 5 x 5 plateau, rover 1 at (1,2,N) running LMLMLMLMM and rover  *)
(* 2 at (3,3,E) running MMRMMRMRRM give exactly "1 3 N", "5 1 E", no error.  *)
C7_ReadmeMission ==
    (mission = 1 /\ pc = "done") =>
        ret = [output |-> <<"1 3 N", "5 1 E">>, err |-> NoError]

C7_Witness ==
    mission = 1 /\ pc = "done" /\ plateau = [maxX |-> 5, maxY |-> 5] /\ i = 2

(* C8: when RunRover fails for the rover of ordinal k, Execute returns       *)
(* RoverExecutionFailed naming k and no output, whatever was computed for    *)
(* the rovers before, and runs nothing after that.                           *)
C8_ExecutionFailureAborts ==
    /\ [][(pc = "RunRover" /\ err' # NoError) =>
            /\ pc' = "done"
            /\ Is(ret'.err, ErrRoverInstructions)
            /\ ret'.err.msg = "rover error executing instruction " \o Itoa(i + 1)
                                 \o ": " \o err'.msg
            /\ ret'.output = <<>>
            /\ rovers' = rovers /\ i' = i
         ]_vars
    /\ Returned

\* the second rover failed after the first had produced its output
C8_Witness ==
    /\ pc = "done" /\ Is(ret.err, ErrRoverInstructions)
    /\ i = 1 /\ Len(output) = 1 /\ ret.output = <<>>

(* C9: when a later rover is placed on the cell where an earlier rover of    *)
(* the batch ended, the error Execute returns matches RoverExecutionFailed   *)
(* and RoverCollision, and no output is returned.                            *)
C9_FailureWrapsCollision ==
    (/\ pc = "done" /\ Len(rovers) = i + 1
     /\ \E j \in 1..i : PositionOf(j).coordinates = PositionOf(i + 1).coordinates) =>
        /\ Is(ret.err, ErrRoverInstructions)
        /\ Is(ret.err, ErrRoverCollision)
        /\ ret.output = <<>>

(* C10: Execute fails with RoverCreationFailed naming i+1 exactly when the   *)
(* instruction it reaches at index i has no initial position; then no output *)
(* is returned and RunRover is called neither for it nor for a later one.    *)
C10_CreationFailure ==
    /\ [][(pc = "loop" /\ i < n) =>
            /\ (initialPosition' = Nil) <=> Is(ret'.err, ErrRoverCreating)
            /\ (initialPosition' = Nil) =>
                  /\ pc' = "done"
                  /\ ret'.err.msg = "rover could not be created " \o Itoa(i + 1)
                                       \o ": rover must not be nil"
                  /\ ret'.output = <<>>
                  /\ occupiedSquares' = occupiedSquares
                  /\ heap' = heap
                  /\ rovers' = rovers /\ currentRover' = currentRover
         ]_vars
    /\ [](Is(ret.err, ErrRoverCreating) =>
            pc = "done" /\ initialPosition = Nil /\ Len(rovers) = i)
    /\ Returned

\* the second instruction had no position, the first rover had run
C10_Witness ==
    /\ pc = "done" /\ Is(ret.err, ErrRoverCreating)
    /\ i = 1 /\ Len(output) = 1 /\ ret.output = <<>>

----------------------------------------------------------------------------
(* Vocabulary of the properties of prepared missions *)

\* the arguments of instruction k, and what NewPosition returned for them
Raw(k) == raw.rovers[k]
Made(k) == built.made[k]

\* the instructions are built
Prepared == mission < 0 /\ pc \notin {"build", "rejected"}

\* the coordinates are inside the plateau, by the claim's own inequalities
Inside(x, y, mx, my) == 0 <= x /\ x <= mx /\ 0 <= y /\ y <= my

\* the first len characters of the command string of instruction k
Starts(k, prefix) ==
    /\ Len(Raw(k).Commands) >= Len(prefix)
    /\ SubSeq(Raw(k).Commands, 1, Len(prefix)) = prefix

\* the cells where the rovers before rover k stand
CellsBefore(k) == {PositionOf(j).coordinates : j \in 1..(k - 1)}

(* C11: Execute run twice on the same instruction list, each time with a    *)
(* new MissionControl for the same plateau, returns the same output both    *)
(* times.                                                                   *)
C11_SameOutputTwice ==
    (pc = "done" /\ previous # <<>>) => ret.output = previous[1].output

(* C12: when Execute returns, with or without an error, every instruction   *)
(* of the input still has the initial position, coordinates and direction,  *)
(* and the command string it had before the call.                           *)
C12_InputReadOnly ==
    (pc = "done" /\ mission < 0) =>
        \A k \in 1..Len(built.made) :
            /\ Made(k).err = NoError => heap[PtrOf(k)] = Made(k).pos
            /\ Raw(k).Commands \in Scripts

(* C13: RunRover skips every character other than L, R and M: the final      *)
(* position, the returned string and the occupancy map are those of the     *)
(* run of the string with the other characters removed, and no error is     *)
(* raised for them.                                                         *)
Recognised(cmds) == SelectSeq(cmds, LAMBDA ch : ch \in {"L", "R", "M"})

C13_UnknownCharactersSkipped ==
    /\ [](Prepared /\ pc = "loop" /\ i = n =>
            LET k == n
                start == Made(k).pos
                placed == MapSet([sq \in CellsBefore(k) |->
                                     CHOOSE j \in 1..(k - 1) :
                                         PositionOf(j).coordinates = sq],
                                 start.coordinates, k)
                expected == RunCommands(Recognised(Raw(k).Commands), k, start,
                                        placed, plateau)
            IN  /\ PositionOf(k) = expected.position
                /\ output[k] = String(expected.position)
                /\ occupiedSquares = expected.occupiedSquares
                /\ err = NoError)
    /\ [][pc = "commands" => pc' \in {"commands", "loop"} /\ err' = NoError]_vars

\* unknown characters between a move next to the obstacle and a turn
C13_Witness ==
    /\ Prepared /\ pc = "loop" /\ i = n /\ n = 2
    /\ Raw(2).Commands = <<"X", "M", "X", "L">>
    /\ PositionOf(2).coordinates # Made(2).pos.coordinates

(* C14: four consecutive L commands, and four consecutive R commands, from   *)
(* any of the four cardinal directions leave the rover facing as before.    *)
C14_FourTurnsRestore ==
    (/\ Prepared /\ pc = "commands" /\ i + 1 = n /\ ci = 4
     /\ \/ Starts(n, <<"L", "L", "L", "L">>)
        \/ Starts(n, <<"R", "R", "R", "R">>)) =>
        /\ Made(n).pos.direction \in Directions
        /\ Cur = Made(n).pos

\* four right turns from W, through the wrap to N
C14_Witness ==
    /\ Prepared /\ pc = "commands" /\ i + 1 = n /\ ci = 4
    /\ Starts(n, <<"R", "R", "R", "R">>)
    /\ Made(n).pos.direction = W /\ Cur.direction = W

(* C15: an L or R command always succeeds and changes only the facing of    *)
(* the rover: its coordinates and the whole occupancy map stay as they      *)
(* were, also on a boundary cell and next to another rover.                 *)
LeftOf(d) == CASE d = N -> W [] d = W -> S [] d = S -> E [] d = E -> N

RightOf(d) == CASE d = N -> E [] d = E -> S [] d = S -> W [] d = W -> N

C15_TurnChangesOnlyFacing ==
    [][(pc = "commands" /\ ci' = ci + 1 /\ c' \in {"L", "R"}) =>
          LET ptr == currentRover.position IN
          /\ pc' = "commands" /\ err' = NoError /\ ret' = ret
          /\ currentRover' = currentRover
          /\ heap'[ptr].coordinates = heap[ptr].coordinates
          /\ heap[ptr].direction \in Directions =>
                heap'[ptr].direction = IF c' = "L" THEN LeftOf(heap[ptr].direction)
                                                  ELSE RightOf(heap[ptr].direction)
          /\ \A q \in 1..Len(heap) : q # ptr => heap'[q] = heap[q]
          /\ Len(heap') = Len(heap)
          /\ occupiedSquares' = occupiedSquares
      ]_vars

\* the rover turned in a corner of the plateau and now faces the cell where
\* another rover stands; before the turn it faced the boundary
C15_Witness ==
    /\ pc = "commands" /\ c = "L" /\ Len(rovers) = 2
    /\ Cur.coordinates = NewCoordinates(0, 0) /\ Cur.direction = E
    /\ PositionOf(1).coordinates = NewCoordinates(1, 0)
    /\ PositionOf(1) # Cur

(* C16: for a placed rover MLLM and MRRM end on the coordinates they        *)
(* started from, facing the opposite way, whenever both M are accepted,     *)
(* i.e. neither is blocked by the boundary or by another rover.             *)
Opposite(d) == CASE d = N -> S [] d = S -> N [] d = E -> W [] d = W -> E

C16_ThereAndBack ==
    (/\ Prepared /\ pc = "commands" /\ i + 1 = n /\ ci = 4
     /\ \/ Starts(n, <<"M", "L", "L", "M">>)
        \/ Starts(n, <<"M", "R", "R", "M">>)
     /\ CellAhead(Made(n).pos) \in PlateauCells
     /\ CellAhead(Made(n).pos) \notin CellsBefore(n)) =>
        /\ Cur.coordinates = Made(n).pos.coordinates
        /\ Cur.direction = Opposite(Made(n).pos.direction)
        /\ DOMAIN occupiedSquares = CellsBefore(n) \cup {Made(n).pos.coordinates}
        /\ occupiedSquares[Cur.coordinates] = n

\* out along the edge beside the obstacle and back
C16_Witness ==
    /\ Prepared /\ pc = "commands" /\ i + 1 = n /\ ci = 4 /\ n = 2
    /\ Starts(n, <<"M", "R", "R", "M">>)
    /\ Made(n).pos = Position(NewCoordinates(0, 0), N)
    /\ Cur = Position(NewCoordinates(0, 0), S)

(* C17: for every plateau (mx, my), coordinates (x, y) and direction d,     *)
(* NewPosition succeeds if and only if 0 <= x <= mx, 0 <= y <= my and d is  *)
(* one of N, E, S, W; on success the position holds exactly (x, y) and d.   *)
C17_NewPositionAccepts ==
    Prepared =>
        \A k \in 1..Len(built.made) :
            /\ (Made(k).err = NoError) <=>
                   /\ Inside(Raw(k).x, Raw(k).y, raw.maxX, raw.maxY)
                   /\ Raw(k).d \in Directions
            /\ Made(k).err = NoError =>
                   /\ Made(k).pos.coordinates.x = Raw(k).x
                   /\ Made(k).pos.coordinates.y = Raw(k).y
                   /\ Made(k).pos.direction = Raw(k).d

\* the far corner is accepted
C17_Witness ==
    /\ Prepared /\ Len(built.made) = 1
    /\ Raw(1).x = raw.maxX /\ Raw(1).y = raw.maxY /\ Raw(1).d = W
    /\ Made(1).err = NoError

(* C18: NewPosition returns PositionOutOfBounds whenever the coordinates    *)
(* are outside the plateau, also when the direction is not cardinal; it     *)
(* returns DirectionUnknown only when the coordinates are inside and the    *)
(* direction is not cardinal; on either error no position is returned.      *)
C18_NewPositionErrors ==
    Prepared =>
        \A k \in 1..Len(built.made) :
            LET inside == Inside(Raw(k).x, Raw(k).y, raw.maxX, raw.maxY) IN
            /\ ~ inside => Made(k).err = ErrPositionOutOfBounds
            /\ Made(k).err = ErrDirectionUnknown =>
                   inside /\ Raw(k).d \notin Directions
            /\ Made(k).err \in {NoError, ErrPositionOutOfBounds, ErrDirectionUnknown}
            /\ Made(k).err # NoError => Made(k).pos = Nil

\* outside the plateau and no direction: the boundary is the error reported
C18_Witness ==
    /\ Prepared /\ Len(built.made) = 1
    /\ Raw(1).x = raw.maxX + 1 /\ Raw(1).d = UnknownDirection
    /\ Made(1).err = ErrPositionOutOfBounds /\ Made(1).pos = Nil

(* C19: NewPlateau(maxX, maxY) fails with PlateauTooSmall exactly when maxX *)
(* or maxY is below the minimum dimension, 2, and then returns no plateau;  *)
(* otherwise it returns a plateau whose bounds are exactly (maxX, maxY).    *)
C19_NewPlateau ==
    (mission < 0 /\ pc # "build") =>
        LET small == raw.maxX < 2 \/ raw.maxY < 2 IN
        /\ small <=> Is(built.plateau.err, ErrPlateauTooSmall)
        /\ small => /\ built.plateau.err = ErrPlateauTooSmall
                    /\ built.plateau.plateau = Nil
                    /\ plateau = Nil
        /\ ~ small => /\ built.plateau.err = NoError
                      /\ built.plateau.plateau.maxX = raw.maxX
                      /\ built.plateau.plateau.maxY = raw.maxY
                      /\ plateau = built.plateau.plateau

\* one dimension is large enough, the other is not
C19_Witness ==
    /\ pc = "rejected" /\ raw.maxX >= 2 /\ raw.maxY < 2
    /\ Is(built.plateau.err, ErrPlateauTooSmall)

(* C20: a rover built from a position NewPosition accepted faces one of N,  *)
(* E, S, W in every state any command sequence reaches; turning and moving  *)
(* never reach the unknown direction or a value outside the four.           *)
C20_DirectionStaysCardinal ==
    Prepared =>
        /\ \A p \in 1..Len(heap) : heap[p].direction \in {N, E, S, W}
        /\ \A j \in 1..Len(rovers) : PositionOf(j).direction \in {N, E, S, W}

\* a rover accepted facing N has turned left, past the low end of the range
C20_Witness ==
    /\ Prepared /\ pc = "commands" /\ c = "L" /\ ci = 1
    /\ Made(i + 1).pos.direction = N /\ Cur.direction = W

(* C24: the position check returns PositionOutOfBounds when the position is *)
(* outside the plateau, otherwise RoverCollision when its coordinates are a *)
(* key of the occupancy map, otherwise success; the same check decides the  *)
(* initial placement and the candidate of each M, and it never changes the  *)
(* map.                                                                     *)
Verdict(cell) ==
    IF ~ Inside(cell.x, cell.y, plateau.maxX, plateau.maxY)
    THEN ErrPositionOutOfBounds
    ELSE IF cell \in DOMAIN occupiedSquares THEN ErrRoverCollision ELSE NoError

C24_PositionCheck ==
    /\ [](Running =>
            /\ validate(occupiedSquares, plateau, Cur) = Verdict(Cur.coordinates)
            /\ validate(occupiedSquares, plateau, move(Cur)) = Verdict(CellAhead(Cur)))
    /\ [][pc = "RunRover" =>
            IF Verdict(Cur.coordinates) = NoError
            THEN /\ pc' = "commands" /\ err' = NoError
                 /\ Cur.coordinates \in DOMAIN occupiedSquares'
            ELSE /\ pc' = "done"
                 /\ Is(err', Verdict(Cur.coordinates))
                 /\ occupiedSquares' = occupiedSquares
         ]_vars
    /\ [][(pc = "commands" /\ ci' = ci + 1 /\ c' = "M") =>
            LET ptr == currentRover.position IN
            IF Verdict(CellAhead(Cur)) = NoError
            THEN /\ heap'[ptr].coordinates = CellAhead(Cur)
                 /\ CellAhead(Cur) \in DOMAIN occupiedSquares'
            ELSE /\ heap' = heap
                 /\ occupiedSquares' = occupiedSquares
         ]_vars

\* a rover in the corner faces the boundary, with another rover beside it
C24_Witness ==
    /\ pc = "commands" /\ c = "M" /\ Len(rovers) = 2
    /\ Verdict(CellAhead(Cur)) = ErrPositionOutOfBounds
    /\ \E d \in Directions :
          Verdict(CellAhead(Position(Cur.coordinates, d))) = ErrRoverCollision

(* C25: an accepted M removes the old cell of the rover from the occupancy  *)
(* map, sets the rover's position to the candidate and inserts the          *)
(* candidate cell under the same rover id; the number of occupied cells is  *)
(* the same before and after, and the old cell is free for later rovers.    *)
C25_AcceptedMoveCommits ==
    [][(/\ pc = "commands" /\ ci' = ci + 1 /\ c' = "M"
        /\ CellAhead(Cur) \in PlateauCells
        /\ CellAhead(Cur) \notin DOMAIN occupiedSquares) =>
            LET ptr == currentRover.position
                old == Cur.coordinates
                new == CellAhead(Cur)
            IN  /\ heap'[ptr] = Position(new, Cur.direction)
                /\ DOMAIN occupiedSquares' = (DOMAIN occupiedSquares \ {old}) \cup {new}
                /\ old \notin DOMAIN occupiedSquares'
                /\ occupiedSquares'[new] = currentRover.id
                /\ \A sq \in DOMAIN occupiedSquares \ {old} :
                      occupiedSquares'[sq] = occupiedSquares[sq]
                /\ Cardinality(DOMAIN occupiedSquares')
                      = Cardinality(DOMAIN occupiedSquares)
                /\ validate(occupiedSquares', plateau, Cur) = NoError
      ]_vars

\* TestRoverCollisionDetection: the second rover has left (3,1) for (3,2)
C25_Witness ==
    /\ mission = 2 /\ pc = "commands" /\ i = 1 /\ ci = 1 /\ c = "M"
    /\ Cur = Position(NewCoordinates(3, 2), N)
    /\ DOMAIN occupiedSquares = {NewCoordinates(3, 3), NewCoordinates(3, 2)}

(* C26: Rover.move returns the candidate one cell ahead in the current      *)
(* facing (N: y+1, E: x+1, S: y-1, W: x-1) with the direction unchanged,    *)
(* checks neither bounds nor occupancy (the candidate may lie outside the   *)
(* plateau) and leaves the stored position of the rover unchanged.          *)
C26_MoveCandidate ==
    /\ [](pc = "commands" /\ Cur.direction \in Directions =>
            LET x == Cur.coordinates.x
                y == Cur.coordinates.y
            IN  /\ move(Cur).direction = Cur.direction
                /\ Cur.direction = N => move(Cur).coordinates = NewCoordinates(x, y + 1)
                /\ Cur.direction = E => move(Cur).coordinates = NewCoordinates(x + 1, y)
                /\ Cur.direction = S => move(Cur).coordinates = NewCoordinates(x, y - 1)
                /\ Cur.direction = W => move(Cur).coordinates = NewCoordinates(x - 1, y))
    /\ [][(pc = "commands" /\ ci' = ci + 1 /\ c' = "M") =>
            LET ptr == currentRover.position IN
            \/ heap'[ptr] = heap[ptr]
            \/ /\ heap'[ptr] = move(heap[ptr])
               /\ Verdict(CellAhead(Cur)) = NoError
         ]_vars

\* after an M the rover is where it was and its candidate is off the plateau
C26_Witness ==
    /\ pc = "commands" /\ c = "M" /\ Cur.direction = S
    /\ Cur.coordinates.y = 0
    /\ move(Cur).coordinates = NewCoordinates(Cur.coordinates.x, 0 - 1)

(* C27: turnLeft maps N to W, W to S, S to E and E to N, turnRight maps N   *)
(* to E, E to S, S to W and W to N; they are inverse to each other: an L    *)
(* followed by an R, or an R followed by an L, restores the direction.      *)
C27_TurnTables ==
    (Prepared /\ pc = "commands" /\ i + 1 = n) =>
        LET start == Made(n).pos IN
        /\ (ci = 1 /\ Starts(n, <<"L">>)) =>
              /\ start.direction = N => Cur.direction = W
              /\ start.direction = W => Cur.direction = S
              /\ start.direction = S => Cur.direction = E
              /\ start.direction = E => Cur.direction = N
        /\ (ci = 1 /\ Starts(n, <<"R">>)) =>
              /\ start.direction = N => Cur.direction = E
              /\ start.direction = E => Cur.direction = S
              /\ start.direction = S => Cur.direction = W
              /\ start.direction = W => Cur.direction = N
        /\ (ci = 2 /\ (Starts(n, <<"L", "R">>) \/ Starts(n, <<"R", "L">>))) =>
              Cur = start
        /\ turnRight(turnLeft(Cur)) = Cur
        /\ turnLeft(turnRight(Cur)) = Cur

\* left from N and back
C27_Witness ==
    /\ Prepared /\ pc = "commands" /\ i + 1 = n /\ ci = 2
    /\ Starts(n, <<"L", "R">>)
    /\ Made(n).pos.direction = N /\ Cur.direction = N /\ c = "R"

(* C28: during Execute on a fresh MissionControl, after each processed      *)
(* command the occupancy map has exactly one key per rover placed so far:   *)
(* the key of rover j is its current cell and the value is j, its 1-based   *)
(* index in the instruction list; the number of occupied cells equals the   *)
(* number of placed rovers and never decreases.                             *)
PlacedRovers == IF pc = "commands" THEN i + 1 ELSE i

C28_OneKeyPerRover ==
    /\ [](/\ DOMAIN occupiedSquares = {PositionOf(j).coordinates : j \in 1..PlacedRovers}
          /\ \A j \in 1..PlacedRovers :
                /\ rovers[j].id = j
                /\ occupiedSquares[PositionOf(j).coordinates] = j
          /\ Cardinality(DOMAIN occupiedSquares) = PlacedRovers)
    /\ [][Cardinality(DOMAIN occupiedSquares')
            >= Cardinality(DOMAIN occupiedSquares)]_vars

\* README: both rovers have run all their commands
C28_Witness ==
    /\ mission = 1 /\ pc = "commands" /\ i = 1 /\ ci = 10
    /\ occupiedSquares = MapSet(MapSet(EmptyMap, NewCoordinates(1, 3), 1),
                                NewCoordinates(5, 1), 2)

(* C29: Execute always terminates: RunRover consumes each character of the  *)
(* command string exactly once, left to right, a blocked move causes no     *)
(* retry, and Execute visits each instruction at most once, ending with n   *)
(* outputs or with an error.                                                *)
C29_ExecuteTerminates ==
    /\ [](pc = "loop" => <>(pc = "done"))
    /\ [][pc = "commands" =>
            \/ /\ pc' = "commands" /\ i' = i
               /\ ci < Len(Raw(i + 1).Commands)
               /\ c' = Raw(i + 1).Commands[ci + 1]
               /\ ci' = ci + 1
            \/ /\ pc' = "loop" /\ i' = i + 1
               /\ ci = Len(Raw(i + 1).Commands)
         ]_vars
    /\ [][pc # "commands" => i' = i]_vars
    /\ [](pc = "done" =>
            \/ ret.err = NoError /\ Len(ret.output) = n /\ i = n
            \/ ret.err # NoError /\ ret.output = <<>> /\ i < n)
    /\ Returned

\* a run of four moves, the last ones against the boundary, has ended
C29_Witness ==
    /\ pc = "done" /\ ret.err = NoError /\ n = 1
    /\ Raw(1).Commands = <<"M", "M", "M", "M">>
    /\ PositionOf(1) = Position(NewCoordinates(0, 2), N)

----------------------------------------------------------------------------
(* Vocabulary of the properties of App.Run *)

\* the places of Execute
InExecute == pc \in {"loop", "RunRover", "commands", "done"}

\* nothing has been written, to os.Stdout or to the other writer
NothingWritten == streams.stdout = "" /\ streams.writer = ""

(* C30: Run reads, parses, creates the mission control, executes and writes *)
(* in this order and stops at the first failure: a failed read gives        *)
(* ErrAppInput and nothing is parsed, a failed Parse gives ErrAppParsing    *)
(* and Create is not called, a failed Create gives ErrAppCreatingMC and     *)
(* Execute is not called, a failed Execute gives ErrAppExecMission; nothing *)
(* is written before Execute has succeeded, so nothing on any failure.      *)
C30_RunInOrder ==
    /\ [][pc = "read" =>
            IF app.input.err # NoError
            THEN pc' = "exit" /\ Is(runErr', ErrAppInput) /\ parse' = NoParse
            ELSE pc' = "parse" /\ runErr' = NoError]_vars
    /\ [][pc' = "parse" => pc = "read"]_vars
    /\ [][pc = "parsed" =>
            IF parse.err # NoError
            THEN pc' = "exit" /\ Is(runErr', ErrAppParsing)
            ELSE pc' = "create" /\ runErr' = NoError]_vars
    /\ [][pc' = "create" => pc = "parsed" /\ parse.err = NoError]_vars
    /\ [][pc = "create" =>
            \/ pc' = "exit" /\ Is(runErr', ErrAppCreatingMC) /\ i' = 0 /\ ret' = NoReturn
            \/ pc' = "loop" /\ runErr' = NoError /\ i' = 0 /\ occupiedSquares' = EmptyMap]_vars
    /\ [][pc' = "loop" => pc = "create" \/ InExecute]_vars
    /\ [][pc = "done" =>
            /\ pc' = "exit"
            /\ IF ret.err # NoError
               THEN Is(runErr', ErrAppExecMission) /\ streams' = streams
               ELSE runErr' = NoError /\ streams'[app.output] # ""]_vars
    /\ [][pc' = "exit" => pc \in {"read", "parsed", "create", "done"}]_vars
    /\ [](pc # "exit" => NothingWritten)
    /\ [](pc = "exit" /\ runErr # NoError => NothingWritten)

\* the parser accepted the input, the factory made a mission control, and
\* Execute failed
C30_Witness ==
    /\ pc = "exit"
    /\ app.parser = "parser"
    /\ Is(runErr, ErrAppExecMission)
    /\ Len(rovers) = 2

\* the lines of the listing, each ended by a newline
RECURSIVE Listing(_)
Listing(lines) ==
    IF lines = <<>> THEN "" ELSE Head(lines) \o "\n" \o Listing(Tail(lines))

\* the stream that is not a.output
Elsewhere == IF app.output = "stdout" THEN "writer" ELSE "stdout"

(* C23: when Run has succeeded, the writer it was given holds the header    *)
(* line ended by a newline and then one line per rover, in the order of the *)
(* input, each ended by a newline; nothing was written anywhere else, so    *)
(* the output is the same for os.Stdout and for any other writer.           *)
C23_OutputOnWriter ==
    pc = "exit" /\ runErr = NoError =>
        /\ streams[app.output] =
              "info: Mission complete. Final rover positions:" \o "\n"
              \o Listing(ret.output)
        /\ streams[Elsewhere] = ""

----------------------------------------------------------------------------
(* Vocabulary of the properties of the parser *)

\* the document the input of Run was written from
Doc == app.input.doc

\* the direction a letter names
Named(letter) ==
    CASE letter = "N" -> N [] letter = "E" -> E [] letter = "S" -> S [] letter = "W" -> W

\* what makes a line valid: a plateau of at least 2 by 2; a cell of the
\* plateau and one of the four letters; command letters only
ValidPlateauLine(line) == line.form /\ line.maxX >= 2 /\ line.maxY >= 2
ValidPositionLine(line, pla) ==
    /\ line.form
    /\ line.d \in {"N", "E", "S", "W"}
    /\ Inside(line.x, line.y, pla.maxX, pla.maxY)
ValidCommandLine(line) == line.form

SomeLineInvalid(doc) ==
    \/ ~ValidPlateauLine(doc.plateau)
    \/ \E k \in 1..Len(doc.rovers) :
          \/ ~ValidPositionLine(doc.rovers[k].position, doc.plateau)
          \/ ~ValidCommandLine(doc.rovers[k].cmds)

\* Parse of the real parser has returned
Parsed == pc = "parsed" /\ app.parser = "parser"

(* C22: when Parse succeeds, the plateau is the one of the plateau line and *)
(* the k-th instruction is made from the k-th pair of lines: its command    *)
(* string is that line in upper case, with the characters L, R, M only, and *)
(* its position is the cell and the direction of the position line, inside  *)
(* the plateau and cardinal.  When some line is invalid Parse returns an    *)
(* error, and with an error it returns no plateau and no instructions.      *)
C22_ParseResult ==
    Parsed =>
        /\ parse.err = NoError =>
              /\ built.plateau.plateau = [maxX |-> Doc.plateau.maxX, maxY |-> Doc.plateau.maxY]
              /\ Len(built.made) = Len(Doc.rovers)
              /\ Len(raw.rovers) = Len(Doc.rovers)
              /\ \A k \in 1..Len(Doc.rovers) :
                    /\ raw.rovers[k].Commands = Doc.rovers[k].cmds.cmds
                    /\ \A j \in 1..Len(raw.rovers[k].Commands) :
                          raw.rovers[k].Commands[j] \in {"L", "R", "M"}
                    /\ built.made[k].err = NoError
                    /\ built.made[k].pos.coordinates.x = Doc.rovers[k].position.x
                    /\ built.made[k].pos.coordinates.y = Doc.rovers[k].position.y
                    /\ built.made[k].pos.direction = Named(Doc.rovers[k].position.d)
                    /\ built.made[k].pos.direction \in Directions
                    /\ Inside(built.made[k].pos.coordinates.x,
                              built.made[k].pos.coordinates.y,
                              built.plateau.plateau.maxX, built.plateau.plateau.maxY)
        /\ SomeLineInvalid(Doc) => parse.err # NoError
        /\ parse.err # NoError =>
              /\ built.plateau.plateau = Nil
              /\ built.made = <<>>
              /\ raw.rovers = <<>>

\* Parse has succeeded on two rovers with different lines, one of them in
\* lower case
C22_Witness ==
    /\ Parsed /\ parse.err = NoError
    /\ Len(Doc.rovers) = 2
    /\ Doc.rovers[1].position.text = <<"1", " ", "1", " ", "e">>
    /\ Doc.rovers[1].cmds.text = <<"l", "m">>
    /\ Doc.rovers[2].position.text = <<"0", " ", "0", " ", "N">>
    /\ Doc.rovers[2].cmds.text = <<"M", "M", "R">>

----------------------------------------------------------------------------
(* Vocabulary of the properties of two requests at once *)

\* the mission a document describes, as arguments of the constructors
DocMission(doc) ==
    [maxX |-> doc.plateau.maxX, maxY |-> doc.plateau.maxY,
     rovers |-> [k \in 1..Len(doc.rovers) |->
                    RawRover(doc.rovers[k].position.x, doc.rovers[k].position.y,
                             Named(doc.rovers[k].position.d), doc.rovers[k].cmds.cmds)]]

\* Execute alone, on a new map, one rover after the other from rover k on:
\* the lines of the output, or failed
RECURSIVE AloneExecute(_, _, _, _, _)
AloneExecute(m, made, k, occ, lines) ==
    IF k > Len(m.rovers) THEN [lines |-> lines, failed |-> FALSE]
    ELSE IF made.made[k].err # NoError THEN [lines |-> <<>>, failed |-> TRUE]
    ELSE IF validate(occ, made.plateau.plateau, made.made[k].pos) # NoError
    THEN [lines |-> <<>>, failed |-> TRUE]
    ELSE LET after == RunCommands(m.rovers[k].Commands, k, made.made[k].pos,
                                  MapSet(occ, made.made[k].pos.coordinates, k),
                                  made.plateau.plateau)
         IN  AloneExecute(m, made, k + 1, after.occupiedSquares,
                          Append(lines, String(after.position)))

\* what Run of the App a gives when no other request runs: the sentinel of
\* its error and what its writer holds (the documents of these Apps have
\* valid lines only, so Parse fails just for a document without rovers)
Alone(a) ==
    LET m == IF a.parser = "mock" THEN a.stub.raw ELSE DocMission(a.input.doc)
        made == Constructed(m)
        sentinel ==
            IF a.input.err # NoError THEN ErrAppInput
            ELSE IF a.parser = "mock" /\ a.stub.err # NoError THEN ErrAppParsing
            ELSE IF a.parser = "parser" /\ a.input.doc.rovers = <<>> THEN ErrAppParsing
            ELSE IF a.mcf = "mock" \/ made.plateau.err # NoError THEN ErrAppCreatingMC
            ELSE IF AloneExecute(m, made, 1, EmptyMap, <<>>).failed THEN ErrAppExecMission
            ELSE NoError
    IN  [err |-> sentinel,
         writer |-> IF sentinel # NoError THEN ""
                    ELSE "info: Mission complete. Final rover positions:"
                         \o Listing(AloneExecute(m, made, 1, EmptyMap, <<>>).lines)]

SameResult(e, written, alone) ==
    /\ IF alone.err = NoError THEN e = NoError ELSE Is(e, alone.err)
    /\ written = alone.writer

(* C21: two requests run at once, each with the MissionControl the factory  *)
(* made for it; however their steps interleave, each Run ends with the      *)
(* error and the output it has when it runs alone.                          *)
C21_MissionsApart ==
    /\ pc = "exit" => SameResult(runErr, streams.writer, Alone(app))
    /\ parked.locals.pc = "exit" =>
          SameResult(parked.locals.runErr, parked.locals.writer, Alone(parked.locals.app))

\* both requests are in the middle of their commands, each with its own
\* MissionControl, and both maps hold the same cell
C21_Witness ==
    /\ pc = "commands" /\ ci > 0
    /\ parked.locals.pc = "commands" /\ parked.locals.ci > 0
    /\ mc # parked.locals.mc
    /\ \E cell \in DOMAIN occupiedSquares : cell \in DOMAIN controls[parked.locals.mc]

----------------------------------------------------------------------------
(* C32: while Execute works on rover i+1, no step changes the position of a  *)
(* rover before it or the map entry of that rover's cell; when Execute has   *)
(* returned, every finished rover's reported position is still its position  *)
(* and its cell is still held under its id.                                  *)
C32_EarlierRoversUntouched ==
    /\ [][\A j \in 1..i :
            /\ PositionOf(j)' = PositionOf(j)
            /\ PositionOf(j).coordinates \in DOMAIN occupiedSquares'
            /\ occupiedSquares'[PositionOf(j).coordinates] = j
         ]_vars
    /\ [](pc = "done" =>
            \A j \in 1..Len(output) :
                /\ output[j] = String(PositionOf(j))
                /\ PositionOf(j).coordinates \in DOMAIN occupiedSquares
                /\ occupiedSquares[PositionOf(j).coordinates] = j)

\* the second rover has just been refused a move onto the first rover's cell
C32_Witness ==
    /\ pc = "commands" /\ i = 1 /\ ci > 0 /\ c = CmdMove
    /\ CellAhead(Cur) = PositionOf(1).coordinates

(* C33: when Execute has failed at rover i+1, nothing is undone: no output   *)
(* is returned, yet the map holds exactly the final cells of the rovers      *)
(* 1..i, each under its rover's id, and no entry for rover i+1.              *)
C33_FailureNotRolledBack ==
    (pc = "done" /\ ret.err # NoError) =>
        /\ ret.output = <<>>
        /\ Len(output) = i
        /\ DOMAIN occupiedSquares = {PositionOf(j).coordinates : j \in 1..i}
        /\ \A j \in 1..i :
              /\ occupiedSquares[PositionOf(j).coordinates] = j
              /\ output[j] = String(PositionOf(j))
        /\ \A sq \in DOMAIN occupiedSquares : occupiedSquares[sq] # i + 1

\* the second rover was refused on the cell where the first one ended; the
\* map still holds that cell and nothing else
C33_Witness ==
    /\ pc = "done" /\ Is(err, ErrRoverCollision) /\ i = 1
    /\ DOMAIN occupiedSquares = {PositionOf(1).coordinates}
    /\ ci = 0 /\ Len(rovers) = 2
    /\ PositionOf(2).coordinates = PositionOf(1).coordinates

(* C34: when the plateau and the instructions come from a Parse that         *)
(* succeeded and the MissionControl is a new one for that plateau, Execute   *)
(* fails only at the placement of a rover whose start cell is the final      *)
(* cell of an earlier rover: the failure is never RoverCreationFailed and    *)
(* never an out-of-bounds placement.                                         *)
C34_OnlyPlacementCollision ==
    (/\ app.parser = "parser" /\ app.mcf = "default"
     /\ pc \in {"done", "exit"} /\ ret.err # NoError) =>
        /\ Is(ret.err, ErrRoverInstructions)
        /\ ~Is(ret.err, ErrRoverCreating)
        /\ Is(err, ErrRoverCollision)
        /\ ~Is(err, ErrPositionOutOfBounds)
        /\ Len(rovers) = i + 1 /\ ci = 0
        /\ validateBoundaries(PositionOf(i + 1), plateau) = NoError
        /\ \E j \in 1..i :
              /\ PositionOf(j).coordinates = PositionOf(i + 1).coordinates
              /\ output[j] = String(PositionOf(j))

\* a parsed mission whose second rover starts on the cell where the first
\* one ended
C34_Witness ==
    /\ app.parser = "parser" /\ app.mcf = "default"
    /\ pc = "done" /\ ret.err # NoError /\ i = 1
    /\ Is(err, ErrRoverCollision)
    /\ PositionOf(1).coordinates = PositionOf(2).coordinates

----------------------------------------------------------------------------
(* The server (internal/webapi/handler.go): handleMission reads the body of  *)
(* the request through a MaxBytesReader, runs an App that writes to the      *)
(* response, and answers a failure of Run with http.Error.                   *)

\* 1024 * 1024 in the source; here the limit is MaxBody characters
maxRequestSize == MaxBody

StatusOK                    == 200
StatusBadRequest            == 400
StatusRequestEntityTooLarge == 413
StatusInternalServerError   == 500

\* the error a MaxBytesReader returns once the limit is passed
MaxBytesError == New("*http.MaxBytesError", "http: request body too large")

\* errors.As(e, &target) for a target of the type of typed: an error of that
\* type is in the chain of e
As(e, typed) == typed.is \subseteq e.is /\ e # NoError

\* io.ReadAll on http.MaxBytesReader(w, body, maxRequestSize): [data, err]
MaxBytesReader(body) ==
    IF Len(body) > maxRequestSize
    THEN [data |-> SubSeq(body, 1, maxRequestSize), err |-> MaxBytesError]
    ELSE [data |-> body, err |-> NoError]

\* a body of maxRequestSize+1 characters: the document, then question marks
Oversized(doc) ==
    Render(doc) \o [k \in 1..(maxRequestSize + 1 - Len(Render(doc))) |-> "?"]

\* the App handleMission makes for a request with this body
ServerApp(parser, stub, mcf, doc, body) ==
    [parser |-> parser, stub |-> stub, mcf |-> mcf,
     input |-> [doc |-> doc, body |-> body,
                data |-> MaxBytesReader(body).data, err |-> MaxBytesReader(body).err],
     output |-> "writer"]

\* the servers and their requests: the parser and the default factory on
\* every document; the parser with either factory on a base document and on
\* an oversized body; the mock parsers
ServerApps(a) ==
    LET none == [raw |-> NoRaw, err |-> NoError] IN
    \/ \E doc \in Documents :
          a = ServerApp("parser", none, "default", doc, Render(doc))
    \/ \E doc \in BaseDocuments, mcf \in {"default", "mock"} :
          \/ a = ServerApp("parser", none, mcf, doc, Render(doc))
          \/ a = ServerApp("parser", none, mcf, doc, Oversized(doc))
    \/ \E stub \in Stubs, doc \in {d \in BaseDocuments : Len(d.rovers) = 1} :
          \/ a = ServerApp("mock", stub, "default", doc, Render(doc))
          \/ a = ServerApp("mock", stub, "default", doc, Oversized(doc))

InitServer ==
    /\ mission = -2
    /\ mc = Nil
    /\ controls = <<>>
    /\ parse = NoParse
    /\ ServerApps(app)
    /\ streams = NoStreams
    /\ statusCode = 0
    /\ runErr = NoError
    /\ parked = NoParked
    /\ raw = NoRaw
    /\ built = NoBuilt
    /\ previous = <<>>
    /\ plateau = Nil
    /\ n = 0
    /\ heap = <<>>
    /\ occupiedSquares = EmptyMap
    /\ i = 0
    /\ initialPosition = Nil
    /\ currentRover = NoRover
    /\ rovers = <<>>
    /\ ci = 0
    /\ c = ""
    /\ err = NoError
    /\ output = <<>>
    /\ ret = NoReturn
    /\ pc = "read"

\* http.Error(w, text, code): the status and the text with a newline, unless
\* the header has gone out with an earlier Write
HttpError(strm, code, text) ==
    [code |-> IF strm.writer # "" THEN StatusOK ELSE code,
     strm |-> Write(strm, "writer", text \o "\n")]

\* handleMission: Run has returned an error; the switch over it
HandleMissionFails ==
    /\ pc = "exit"
    /\ runErr # NoError
    /\ LET answer ==
              CASE As(runErr, MaxBytesError) ->
                      HttpError(streams, StatusRequestEntityTooLarge,
                                "Request body is too large.")
                [] Is(runErr, ErrAppParsing) ->
                      HttpError(streams, StatusBadRequest, "Bad request: " \o runErr.msg)
                [] OTHER ->
                      HttpError(streams, StatusInternalServerError,
                                "An internal server error occurred.")
       IN  /\ statusCode' = answer.code
           /\ streams' = answer.strm
    /\ pc' = "responded"
    /\ UNCHANGED <<mc, controls, parse, app, runErr, parked, mission, raw, built, previous,
                   plateau, n, heap, occupiedSquares, i, initialPosition, currentRover,
                   rovers, ci, c, err, output, ret>>

\* handleMission: Run has returned nil; the response went out with the first
\* Write of Run, with the status 200
HandleMissionReturns ==
    /\ pc = "exit"
    /\ runErr = NoError
    /\ statusCode' = StatusOK
    /\ pc' = "responded"
    /\ UNCHANGED <<mc, controls, parse, app, streams, runErr, parked, mission, raw, built,
                   previous, plateau, n, heap, occupiedSquares, i, initialPosition,
                   currentRover, rovers, ci, c, err, output, ret>>

NextServer ==
    \/ NextApp
    \/ HandleMissionFails
    \/ HandleMissionReturns

SpecServer == InitServer /\ [][NextServer]_vars

\* handleMission has answered the request
Responded == pc = "responded"

\* the body of the request is larger than the server accepts
BodyTooLarge == Len(app.input.body) > maxRequestSize

\* the response of a mission that succeeded: the header, with or without its
\* newline, and a line for each rover
PositionsAnswered ==
    streams.writer \in
        {"info: Mission complete. Final rover positions:" \o Listing(ret.output),
         "info: Mission complete. Final rover positions:\n" \o Listing(ret.output)}

(* C31: every request is answered with one status: 413 when its body is     *)
(* larger than the limit, 400 when the mission failed with a parsing error,  *)
(* 500 for any other failure, and 200 with the rover positions when the      *)
(* mission succeeded.                                                        *)
C31_StatusPerRequest ==
    /\ Responded =>
          /\ statusCode = CASE BodyTooLarge -> StatusRequestEntityTooLarge
                            [] Is(runErr, ErrAppParsing) -> StatusBadRequest
                            [] runErr # NoError -> StatusInternalServerError
                            [] OTHER -> StatusOK
          /\ statusCode = StatusOK => PositionsAnswered
    /\ ~Responded => statusCode = 0

====
